---- MODULE Spec2Model ----
(***************************************************************************)
(* Model of the resumable pipeline of autosubnuclei:                       *)
(*   - FileLock / UnixLockStrategy   (core/checkpoint_manager.py)          *)
(*   - CheckpointManager             (core/checkpoint_manager.py)          *)
(*   - SecurityScanner.scan          (core/scanner.py)                     *)
(*   - the resume command            (commands/resume.py)                  *)
(*                                                                         *)
(* Two specifications share the variables:                                 *)
(*   LockSpec : two processes, each with its own CheckpointManager, call   *)
(*              the mutating operations on one checkpoint directory.       *)
(*   Spec     : one scan of one domain, with SIGINT, SIGKILL, tool         *)
(*              failures and resume invocations.                           *)
(***************************************************************************)
EXTENDS Integers, Sequences, FiniteSets, TLC

(***************************************************************************)
(* Part 1.  FileLock                                                       *)
(***************************************************************************)

\* The two actors that write one checkpoint directory: the running scan and
\* a separate resume / inspect invocation.
Procs == {"scan", "resume"}

NoProc == "none"

\* Inode numbers available to the lock path.  An inode is reused once no
\* path and no open handle refers to it, as a file system does.
MaxInodes == 3

Inodes == 1..MaxInodes

\* Number of check_interval sleeps that fit in the acquire() timeout.
MaxPolls == 1

\* The operations of CheckpointManager that modify the checkpoint.
MutatingOps ==
    {"update_phase_status", "update_checkpoint", "update_statistics",
     "set_templates_hash", "set_scan_status", "save_checkpoint",
     "repair_checkpoint", "optimize_checkpoint"}

VARIABLES
    lock_file,      \* inode linked at checkpoints/scan_state.lock, 0 = no file
    flock,          \* flock[i] = process whose open handle holds LOCK_EX on inode i
    lock_handle,    \* lock_handle[p] = inode of FileLock.lock_handle, 0 = None
    lpc,            \* position of each process inside the operation it runs
    waited,         \* sleeps done by the acquire() in progress
    op,             \* the CheckpointManager operation in progress
    acquired,       \* acquire() returned True and release() has not unlocked yet
    lastExit        \* how each process left its last `with FileLock` block

lockVars == <<lock_file, flock, lock_handle, lpc, waited, op, acquired, lastExit>>

VARIABLES
    \* the process running the scan or resume command
    pc,                 \* position in the command, "idle" = no process
    resuming,           \* SecurityScanner.resuming
    checkpoint_data,    \* CheckpointManager.checkpoint_data
    scan_state,         \* SecurityScanner.scan_state
    wr,                 \* _write_checkpoint has opened the file and not finished json.dump
    subdomains,         \* scan(): number of enumerated subdomains, hosts 1..subdomains
    alive_domains_text, \* scan(): lines of the probing output
    batch_size, total_batches, batch_idx,
    all_alive,          \* _process_httpx_batches: lines collected so far
    results,            \* _process_nuclei_batches: batch_results
    \* the output directory
    ckptFile,           \* checkpoints/scan_state.json
    files,              \* which of the other files exist
    subdomains_txt, alive_txt, results_txt, scan_state_json, cache,
    \* what the outside world observed
    exit_code,          \* exit code of the last process
    lastEnd,            \* how the last process ended
    runs,               \* commands started so far
    calls,              \* external tool invocations of the current process
    loaded,             \* phase statuses of the checkpoint a resume loaded
    prev,               \* where the last SIGINT hit the alive_check phase
    toolFailed,         \* some external tool was missing or exited non-zero
    sigkilled           \* some process was killed with SIGKILL

procVars == <<pc, resuming, checkpoint_data, scan_state, wr>>

localVars == <<subdomains, alive_domains_text, batch_size, total_batches, batch_idx,
               all_alive, results>>

diskVars == <<ckptFile, files, subdomains_txt, alive_txt, results_txt,
              scan_state_json, cache>>

histVars == <<exit_code, lastEnd, runs, calls, loaded, prev, toolFailed, sigkilled>>

scanVars == <<procVars, localVars, diskVars, histVars>>

VARIABLES
    \* one operation called on its own
    arg,                \* the arguments of the call
    ret                 \* what the call returned

callVars == <<arg, ret>>

vars == <<lockVars, scanVars, callVars>>

NoArg == [op |-> "none"]

NoRet == [op |-> "none"]

CallInit ==
    /\ arg = NoArg
    /\ ret = NoRet

LockInit ==
    /\ lock_file = 0
    /\ flock = [i \in Inodes |-> NoProc]
    /\ lock_handle = [p \in Procs |-> 0]
    /\ lpc = [p \in Procs |-> "idle"]
    /\ waited = [p \in Procs |-> 0]
    /\ op = [p \in Procs |-> "none"]
    /\ acquired = [p \in Procs |-> FALSE]
    /\ lastExit = [p \in Procs |-> "none"]

\* repair_checkpoint and optimize_checkpoint change checkpoint_data before
\* their `with FileLock` block; the others change it inside the block.
ModifiesBeforeLock(o) == o \in {"repair_checkpoint", "optimize_checkpoint"}

\* save_checkpoint only writes.
ModifiesInMemory(o) == o # "save_checkpoint"

\* An inode no path and no handle refers to.
FreeInodes ==
    {i \in Inodes : i # lock_file /\ \A p \in Procs : lock_handle[p] # i}

\* open(lock_file, 'w'): the inode at the path, created when the path is absent.
OpenedInode == IF lock_file # 0 THEN lock_file
               ELSE CHOOSE i \in FreeInodes : \A j \in FreeInodes : i <= j

\* First statement of the `with` body, reached whatever acquire() returned.
BodyStart(o) ==
    IF ModifiesInMemory(o) /\ ~ModifiesBeforeLock(o) THEN "modify" ELSE "write"

\* A process starts one mutating operation.
CallOp(p, o) ==
    /\ lpc[p] = "idle"
    /\ op' = [op EXCEPT ![p] = o]
    /\ lpc' = [lpc EXCEPT ![p] = IF ModifiesBeforeLock(o) THEN "modify" ELSE "acquire"]
    /\ waited' = [waited EXCEPT ![p] = 0]
    /\ UNCHANGED <<lock_file, flock, lock_handle, acquired, lastExit>>

\* The change of checkpoint_data the operation makes.
ModifyInMemory(p) ==
    /\ lpc[p] = "modify"
    /\ lpc' = [lpc EXCEPT ![p] = IF ModifiesBeforeLock(op[p]) THEN "acquire" ELSE "write"]
    /\ UNCHANGED <<lock_file, flock, lock_handle, waited, op, acquired, lastExit>>

\* UnixLockStrategy.acquire_lock: flock(LOCK_EX | LOCK_NB) on the handle.
acquire_lock(p, i) == flock[i] = NoProc

\* An acquire() whose loop never looks at the time.
TryLock_nodeadline(p) ==
    /\ lpc[p] = "acquire"
    /\ (lock_file = 0 => FreeInodes # {})
    /\ LET i == OpenedInode IN
        /\ lock_file' = i
        /\ lock_handle' = [lock_handle EXCEPT ![p] = i]
        /\ IF acquire_lock(p, i)
           THEN /\ flock' = [flock EXCEPT ![i] = p]
                /\ acquired' = [acquired EXCEPT ![p] = TRUE]
                /\ lpc' = [lpc EXCEPT ![p] = BodyStart(op[p])]
           ELSE UNCHANGED <<flock, acquired, lpc>>
    /\ UNCHANGED <<waited, op, lastExit>>

\* One iteration of the loop of FileLock.acquire.
TryLock(p) ==
    /\ lpc[p] = "acquire"
    /\ (lock_file = 0 => FreeInodes # {})
    /\ LET i == OpenedInode IN
        /\ lock_file' = i
        /\ lock_handle' = [lock_handle EXCEPT ![p] = i]
        /\ IF acquire_lock(p, i)
           THEN /\ flock' = [flock EXCEPT ![i] = p]
                /\ acquired' = [acquired EXCEPT ![p] = TRUE]
                /\ lpc' = [lpc EXCEPT ![p] = BodyStart(op[p])]
                /\ UNCHANGED waited
           ELSE /\ UNCHANGED <<flock, acquired>>
                /\ IF waited[p] > MaxPolls
                   THEN \* timeout: acquire() returns False, __enter__ ignores it
                        /\ lpc' = [lpc EXCEPT ![p] = BodyStart(op[p])]
                        /\ UNCHANGED waited
                   ELSE \* time.sleep(check_interval)
                        /\ waited' = [waited EXCEPT ![p] = @ + 1]
                        /\ UNCHANGED lpc
    /\ UNCHANGED <<op, lastExit>>

\* _write_checkpoint inside the `with` block.
WriteFile(p) ==
    /\ lpc[p] = "write"
    /\ lpc' = [lpc EXCEPT ![p] = "release"]
    /\ lastExit' = [lastExit EXCEPT ![p] = "normal"]
    /\ UNCHANGED <<lock_file, flock, lock_handle, waited, op, acquired>>

\* The body of the `with` block raises: __exit__ runs with the exception.
BodyRaises(p) ==
    /\ lpc[p] \in {"modify", "write"}
    /\ ~(ModifiesBeforeLock(op[p]) /\ lpc[p] = "modify")
    /\ lpc' = [lpc EXCEPT ![p] = "release"]
    /\ lastExit' = [lastExit EXCEPT ![p] = "exception"]
    /\ UNCHANGED <<lock_file, flock, lock_handle, waited, op, acquired>>

\* A release() that forgets the lock and only removes the lock file.
ReleaseUnlock_forgotten(p) ==
    /\ lpc[p] = "release"
    /\ lpc' = [lpc EXCEPT ![p] = "unlink"]
    /\ UNCHANGED <<lock_file, flock, lock_handle, waited, op, acquired, lastExit>>

\* FileLock.release, first half: flock(LOCK_UN) and close of the handle.
ReleaseUnlock(p) ==
    /\ lpc[p] = "release"
    /\ IF lock_handle[p] = 0
       THEN /\ lpc' = [lpc EXCEPT ![p] = "idle"]
            /\ op' = [op EXCEPT ![p] = "none"]
            /\ UNCHANGED <<flock, lock_handle, acquired>>
       ELSE /\ flock' = [i \in Inodes |->
                           IF i = lock_handle[p] /\ flock[i] = p THEN NoProc ELSE flock[i]]
            /\ lock_handle' = [lock_handle EXCEPT ![p] = 0]
            /\ acquired' = [acquired EXCEPT ![p] = FALSE]
            /\ lpc' = [lpc EXCEPT ![p] = "unlink"]
            /\ UNCHANGED op
    /\ UNCHANGED <<lock_file, waited, lastExit>>

\* FileLock.release, second half: the lock file is removed if it exists.
ReleaseUnlink(p) ==
    /\ lpc[p] = "unlink"
    /\ lock_file' = 0
    /\ lpc' = [lpc EXCEPT ![p] = "idle"]
    /\ op' = [op EXCEPT ![p] = "none"]
    /\ UNCHANGED <<flock, lock_handle, waited, acquired, lastExit>>

LockNext ==
    \E p \in Procs :
        \/ \E o \in MutatingOps : CallOp(p, o)
        \/ ModifyInMemory(p)
        \/ TryLock(p)
        \/ WriteFile(p)
        \/ BodyRaises(p)
        \/ ReleaseUnlock(p)
        \/ ReleaseUnlink(p)

(***************************************************************************)
(* Part 2.  The checkpoint document and the operations on it               *)
(***************************************************************************)

\* Largest number of subdomains the enumeration tool reports.
MaxSubs == 10

\* Largest number of commands (one scan, then resumes) run on the directory.
MaxRuns == 2

\* SecurityScanner.max_workers when os.cpu_count() gives nothing.
max_workers == 4

\* SecurityScanner.memory_threshold_mb
memory_threshold_mb == 1024

\* Resident memory (MB) the process may have when a batch size is computed.
MemoryLevels == {100, 800, 2048}

PhaseNames == <<"subdomain_enumeration", "alive_check", "vulnerability_scan">>

Phases == {PhaseNames[i] : i \in 1..3}

ToolOf(ph) == CASE ph = "subdomain_enumeration" -> "subfinder"
                [] ph = "alive_check" -> "httpx"
                [] ph = "vulnerability_scan" -> "nuclei"

\* max() without its first argument: no lower clamp.
Max_second(a, b) == b

Max(a, b) == IF a >= b THEN a ELSE b

Min(a, b) == IF a <= b THEN a ELSE b

\* dict.get(key, default)
Get(d, k, default) == IF k \in DOMAIN d THEN d[k] ELSE default

\* dict.update(kw) on a dict d
Update(d, kw) == kw @@ d

\* dict.pop(key, None)
Pop(d, k) == [x \in (DOMAIN d) \ {k} |-> d[x]]

_create_default_phases ==
    [ph \in Phases |-> [status |-> "pending", progress_percentage |-> 0, results_count |-> 0]]

_create_default_statistics ==
    [subdomains_found |-> 0, alive_subdomains |-> 0, vulnerabilities_found |-> 0]

\* CheckpointManager.initialize_checkpoint: the document of a new scan.
initialize_checkpoint ==
    [scan_id |-> "scan-1", domain |-> "example.com",
     start_time |-> "t0", last_update |-> "now", status |-> "in_progress",
     phases |-> _create_default_phases,
     statistics |-> _create_default_statistics,
     environment |-> [tool_versions |-> "v1", templates_hash |-> ""]]

\* An update_phase_status that leaves last_update as it was.
update_phase_status_stale(d, ph, st, progress, cnt) ==
    IF ph \in DOMAIN d.phases
    THEN [d EXCEPT !.phases[ph] =
                Update(@, [status |-> st, progress_percentage |-> progress,
                           results_count |-> cnt])]
    ELSE d

update_phase_status(d, ph, st, progress, cnt) ==
    IF ph \in DOMAIN d.phases
    THEN [d EXCEPT !.phases[ph] =
                Update(@, [status |-> st, progress_percentage |-> progress,
                           results_count |-> cnt]),
                   !.last_update = "now"]
    ELSE d

update_checkpoint(d, ph, kwargs) ==
    IF ph \in DOMAIN d.phases
    THEN [d EXCEPT !.phases[ph] =
                IF "checkpoint" \in DOMAIN @
                THEN [@ EXCEPT !.checkpoint = Update(@, kwargs)]
                ELSE Update(@, [checkpoint |-> kwargs]),
                   !.last_update = "now"]
    ELSE d

update_statistics(d, key, value) ==
    [d EXCEPT !.statistics = IF key \in DOMAIN @ THEN [@ EXCEPT ![key] = value] ELSE @,
              !.last_update = "now"]

set_scan_status(d, st) == [d EXCEPT !.status = st, !.last_update = "now"]

get_phase_status(d, ph) == d.phases[ph].status

get_phase_data(d, ph) == d.phases[ph]

\* CheckpointManager.optimize_checkpoint, the change of checkpoint_data.
optimize_checkpoint(d) ==
    [d EXCEPT !.phases =
        [ph \in DOMAIN @ |->
            IF @[ph].status = "completed" /\ "checkpoint" \in DOMAIN @[ph]
            THEN Pop(@[ph], "checkpoint") ELSE @[ph]]]

\* The checkpoint file: absent, a complete JSON document, or what an open(..,'w')
\* followed by an unfinished json.dump leaves (empty or cut short).
FileAbsent == [state |-> "absent", doc |-> initialize_checkpoint]

FilePartial == [state |-> "partial", doc |-> initialize_checkpoint]

FileDoc(d) == [state |-> "doc", doc |-> d]

\* CheckpointManager.load_checkpoint returns True on this file: it exists, json.load
\* parses it and the document has a scan_id.
load_checkpoint(f) == f.state = "doc" /\ "scan_id" \in DOMAIN f.doc

\* int(base_batch_size * memory_ratio), with
\* memory_ratio = min(1.0, memory_threshold_mb / max(1, current_memory_mb)).
ScaleByMemoryRatio(base_batch_size, mem) ==
    IF Max(1, mem) <= memory_threshold_mb THEN base_batch_size
    ELSE (base_batch_size * memory_threshold_mb) \div Max(1, mem)

\* current_memory_mb > self.memory_threshold_mb * 0.7, for usages in whole MB.
HighMemory_low(mem) == mem * 10 <= memory_threshold_mb * 7

HighMemory(mem) == mem * 10 > memory_threshold_mb * 7

\* The body of _adaptive_batch_size for self.max_workers = workers and
\* _get_memory_usage() = mem.
AdaptiveBatchSize(total_items, workers, mem) ==
    LET base_batch_size ==
            IF total_items > 10000
            THEN Max(10, Min(500, total_items \div (workers * 2)))
            ELSE Max(10, total_items \div workers)
        scaled == ScaleByMemoryRatio(base_batch_size, mem)
        adjusted_batch_size == IF HighMemory(mem) THEN scaled \div 2 ELSE scaled
        half == IF total_items \div 2 # 0 THEN total_items \div 2 ELSE 1
    IN  Max(5, Min(adjusted_batch_size, half))

\* SecurityScanner._adaptive_batch_size with current_memory_mb = mem.
_adaptive_batch_size(total_items, mem) == AdaptiveBatchSize(total_items, max_workers, mem)

\* n // batch_size: a count that leaves out a short last batch.
BatchCount_floor(n, bs) == n \div bs

\* (n + batch_size - 1) // batch_size
BatchCount(n, bs) == (n + bs - 1) \div bs

\* List[batch_start:batch_end] of the hosts 1..n
BatchOf(n, idx, bs) ==
    LET batch_start == idx * bs
        batch_end == Min((idx + 1) * bs, n)
    IN  [i \in 1..Max(0, batch_end - batch_start) |-> batch_start + i]

\* SecurityScanner._get_alive_check_resume_state
_get_alive_check_resume_state(d, res) ==
    IF res /\ "checkpoint" \in DOMAIN get_phase_data(d, "alive_check")
    THEN LET ck == get_phase_data(d, "alive_check").checkpoint
         IN  Get(ck, "batch_index", 0) * Get(ck, "batch_size", 0)
    ELSE 0

\* The keyword arguments _update_batch_checkpoint passes to update_checkpoint.
BatchCheckpointKwargs(idx, bs, total) ==
    [checkpoint |-> [batch_index |-> idx, batch_size |-> bs,
                     progress |-> (idx * 100) \div total]]

\* sorted(list)
Sorted(l) == SortSeq(l, LAMBDA a, b : a < b)

(***************************************************************************)
(* Part 3.  The scan and resume commands                                   *)
(***************************************************************************)

\* Besides the counts, what _get_cached_result found for the subfinder command
\* line: no lookup yet ("none"), no entry ("absent"), an entry older than 24
\* hours ("expired") or a younger one ("fresh"), and the stdout it holds.
\* notify_raised: the notifier call of scan() that raised, if one did.
\* exit_nonzero: the phase whose subprocess raised CalledProcessError out of
\* _run_command_async into scan(), if one did.
NoCalls == [subfinder |-> 0, httpx |-> 0, nuclei |-> 0,
            cache_entry |-> "none", cached_stdout |-> 0, notify_raised |-> "none",
            exit_nonzero |-> "none"]

NoPrev == [hit |-> FALSE, k |-> 0, n |-> 0, bs |-> 0, found |-> <<>>]

NoLoaded == [ph \in Phases |-> "pending"]

\* SecurityScanner._initialize_new_scan_state
_initialize_new_scan_state ==
    [status |-> "initializing", subdomains |-> 0, alive_subdomains |-> 0,
     vulnerabilities |-> 0]

\* SecurityScanner._initialize_scan_state_from_checkpoint
_initialize_scan_state_from_checkpoint(d) ==
    [status |-> "resuming", subdomains |-> d.statistics.subdomains_found,
     alive_subdomains |-> d.statistics.alive_subdomains,
     vulnerabilities |-> d.statistics.vulnerabilities_found]

ScanInit ==
    /\ pc = "idle"
    /\ resuming = FALSE
    /\ checkpoint_data = initialize_checkpoint
    /\ scan_state = _initialize_new_scan_state
    /\ wr = FALSE
    /\ subdomains = 0
    /\ alive_domains_text = <<>>
    /\ batch_size = 0
    /\ total_batches = 0
    /\ batch_idx = 0
    /\ all_alive = <<>>
    /\ results = <<>>
    /\ ckptFile = FileAbsent
    /\ files = {}
    /\ subdomains_txt = 0
    /\ alive_txt = <<>>
    /\ results_txt = <<>>
    /\ scan_state_json = _initialize_new_scan_state
    /\ cache = 0
    /\ exit_code = 0
    /\ lastEnd = "none"
    /\ runs = 0
    /\ calls = NoCalls
    /\ loaded = NoLoaded
    /\ prev = NoPrev
    /\ toolFailed = FALSE
    /\ sigkilled = FALSE

\* A step of the running process: no checkpoint write is half-way, the step
\* changes checkpoint_data to d and starts _write_checkpoint (open(..,'w')
\* truncates the file; WriteCheckpoint finishes the dump).
StartWrite(d) ==
    /\ checkpoint_data' = d
    /\ ckptFile' = FilePartial
    /\ wr' = TRUE

\* The process is gone: what it held in memory no longer matters.
ProcessGone ==
    /\ pc' = "idle"
    /\ resuming' = FALSE
    /\ checkpoint_data' = initialize_checkpoint
    /\ scan_state' = _initialize_new_scan_state
    /\ wr' = FALSE
    /\ subdomains' = 0
    /\ alive_domains_text' = <<>>
    /\ batch_size' = 0
    /\ total_batches' = 0
    /\ batch_idx' = 0
    /\ all_alive' = <<>>
    /\ results' = <<>>

\* CheckpointManager._write_checkpoint: json.dump completes and the file holds
\* checkpoint_data.
WriteCheckpoint ==
    /\ wr
    /\ ckptFile' = FileDoc(checkpoint_data)
    /\ wr' = FALSE
    /\ UNCHANGED <<pc, resuming, checkpoint_data, scan_state, localVars,
                   files, subdomains_txt, alive_txt, results_txt, scan_state_json,
                   cache, histVars, lockVars, callVars>>

\* The scan command: SecurityScanner.__init__ without a checkpoint.
ScanCommand ==
    /\ pc = "idle"
    /\ runs = 0
    /\ runs' = 1
    /\ pc' = "setup_tools"
    /\ resuming' = FALSE
    /\ scan_state' = _initialize_new_scan_state
    /\ StartWrite(initialize_checkpoint)
    /\ calls' = NoCalls
    /\ lastEnd' = "running"
    /\ UNCHANGED <<localVars, files, subdomains_txt, alive_txt, results_txt,
                   scan_state_json, cache, exit_code, loaded, prev, toolFailed,
                   sigkilled, lockVars, callVars>>

\* The resume command up to optimize_checkpoint: load, verify, backup, optimize.
ResumeCommand ==
    /\ pc = "idle"
    /\ runs >= 1
    /\ runs < MaxRuns
    /\ runs' = runs + 1
    /\ calls' = NoCalls
    /\ IF load_checkpoint(ckptFile)
       THEN /\ pc' = "resume_init"
            /\ StartWrite(optimize_checkpoint(ckptFile.doc))
            /\ lastEnd' = "running"
            /\ UNCHANGED <<resuming, scan_state, localVars, exit_code>>
       ELSE \* "Checkpoint file does not exist" / "Failed to load checkpoint file"
            /\ ProcessGone
            /\ exit_code' = 1
            /\ lastEnd' = "load_failed"
            /\ UNCHANGED ckptFile
    /\ UNCHANGED <<files, subdomains_txt, alive_txt, results_txt, scan_state_json,
                   cache, loaded, prev, toolFailed, sigkilled, lockVars, callVars>>

\* The resume command from SecurityScanner.__init__ with the checkpoint file.
ResumeInit ==
    /\ pc = "resume_init"
    /\ ~wr
    /\ pc' = "setup_tools"
    /\ resuming' = TRUE
    /\ checkpoint_data' = ckptFile.doc
    /\ scan_state' = _initialize_scan_state_from_checkpoint(ckptFile.doc)
    /\ loaded' = [ph \in Phases |-> get_phase_status(ckptFile.doc, ph)]
    /\ UNCHANGED <<wr, localVars, diskVars, exit_code, lastEnd, runs, calls, prev,
                   toolFailed, sigkilled, lockVars, callVars>>

\* SecurityScanner._setup_tools, at the end of __init__: a tool that is missing
\* and cannot be installed raises RuntimeError out of the constructor.
SetupTools ==
    /\ pc = "setup_tools"
    /\ ~wr
    /\ \E installed \in BOOLEAN :
        IF installed
        THEN /\ pc' = "scan_begin"
             /\ UNCHANGED <<resuming, checkpoint_data, scan_state, wr, localVars,
                            exit_code, lastEnd, toolFailed, prev>>
        ELSE /\ ProcessGone
             /\ exit_code' = 1
             /\ lastEnd' = "error"
             /\ toolFailed' = TRUE
             /\ prev' = NoPrev
    /\ UNCHANGED <<diskVars, runs, calls, loaded, sigkilled, lockVars, callVars>>

\* A scan() that forgets the test and runs every phase again.
ShouldRunPhase_always(ph) == TRUE

\* A scan() that, when resuming, runs only the phases still pending.
ShouldRunPhase_pending(ph) ==
    ~resuming \/ get_phase_status(checkpoint_data, ph) = "pending"

\* scan(): the test `not self.resuming or status != "completed"` of each step.
ShouldRunPhase(ph) ==
    ~resuming \/ get_phase_status(checkpoint_data, ph) # "completed"

\* What subfinder may print: the number of distinct subdomains.
SubfinderCounts == {0, 2, MaxSubs}

\* What httpx may print for one batch: nothing, its first host, or every host.
HttpxOutputs(batch) ==
    IF Len(batch) = 0 THEN {<<>>} ELSE {<<>>, <<batch[1]>>, batch}

\* scan() lines 1215-1221: status running, set_scan_status, save_checkpoint, and
\* with notify the call self.notifier.send_start_notification(domain) inside the
\* try block.  The call returns or raises: the Notifier class of
\* utils/notifier.py defines no method of that name (AttributeError); a sink
\* that defines it, as the one the unit tests patch in, returns.  Without
\* notify there is no call.
ScanBegin ==
    /\ pc = "scan_begin"
    /\ ~wr
    /\ scan_state' = [scan_state EXCEPT !.status = "running"]
    /\ StartWrite(set_scan_status(checkpoint_data, "in_progress"))
    /\ \E raised \in BOOLEAN :
        /\ pc' = IF raised THEN "error" ELSE "step1"
        /\ calls' = IF raised THEN [calls EXCEPT !.notify_raised = "start"] ELSE calls
    /\ UNCHANGED <<resuming, localVars, files, subdomains_txt, alive_txt, results_txt,
                   scan_state_json, cache, exit_code, lastEnd, runs, loaded, prev,
                   toolFailed, sigkilled, lockVars, callVars>>

\* scan() step 1 when the phase is skipped: subdomains.txt is read back.
LoadSubdomains ==
    /\ pc = "step1"
    /\ ~wr
    /\ ~ShouldRunPhase("subdomain_enumeration")
    /\ IF "subdomains.txt" \in files
       THEN /\ subdomains' = subdomains_txt
            /\ pc' = "step2"
       ELSE \* open() raises FileNotFoundError
            /\ pc' = "error"
            /\ UNCHANGED subdomains
    /\ UNCHANGED <<resuming, checkpoint_data, scan_state, wr, alive_domains_text,
                   batch_size, total_batches, batch_idx, all_alive, results, diskVars,
                   histVars, lockVars, callVars>>

\* _run_subfinder lines 531-539.
RunSubfinderStart ==
    /\ pc = "step1"
    /\ ~wr
    /\ ShouldRunPhase("subdomain_enumeration")
    /\ StartWrite(update_phase_status(checkpoint_data, "subdomain_enumeration",
                                      "in_progress", 0, 0))
    /\ scan_state' = [scan_state EXCEPT !.status = "enumerating_subdomains"]
    /\ pc' = "subfinder_run"
    /\ UNCHANGED <<resuming, localVars, files, subdomains_txt, alive_txt, results_txt,
                   scan_state_json, cache, histVars, lockVars, callVars>>

\* The cache file of the subfinder command line, as _get_cached_result sees it:
\* none, or one whose timestamp is less (fresh) or more than 86400 s old.
CacheEntry(fresh) ==
    IF "cache" \notin files THEN "absent"
    ELSE IF fresh THEN "fresh" ELSE "expired"

\* SecurityScanner._get_cached_result: the stored stdout of a fresh entry, else
\* None (here 0, as falsy as the empty stdout).
_get_cached_result(fresh) == IF CacheEntry(fresh) = "fresh" THEN cache ELSE 0

\* _run_subfinder lines 542-575: tool check, cache lookup, subprocess, subdomains.txt.
RunSubfinderTool ==
    /\ pc = "subfinder_run"
    /\ ~wr
    /\ \E installed \in BOOLEAN, fresh \in BOOLEAN, ok \in BOOLEAN, n \in SubfinderCounts :
        LET cache_entry == CacheEntry(fresh)
            cached_result == _get_cached_result(fresh)
            hit == cached_result # 0      \* `if cached_result:` an empty string is falsy
            found == IF hit THEN cached_result ELSE n
            looked == [calls EXCEPT !.cache_entry = cache_entry,
                                    !.cached_stdout = cached_result]
        IN  IF ~installed
            THEN \* RuntimeError("subfinder not installed ...")
                 /\ pc' = "error"
                 /\ toolFailed' = TRUE
                 /\ UNCHANGED <<subdomains, scan_state, files, subdomains_txt, cache, calls>>
            ELSE IF ~hit /\ ~ok
            THEN \* subprocess.CalledProcessError
                 /\ pc' = "error"
                 /\ toolFailed' = TRUE
                 /\ calls' = [looked EXCEPT !.subfinder = @ + 1,
                                           !.exit_nonzero = "subdomain_enumeration"]
                 /\ UNCHANGED <<subdomains, scan_state, files, subdomains_txt, cache>>
            ELSE /\ pc' = "subfinder_stats"
                 /\ calls' = IF hit THEN looked ELSE [looked EXCEPT !.subfinder = @ + 1]
                 /\ cache' = IF hit THEN cache ELSE n
                 /\ subdomains' = found
                 /\ subdomains_txt' = found
                 /\ files' = files \cup {"subdomains.txt"} \cup (IF hit THEN {} ELSE {"cache"})
                 /\ scan_state' = [scan_state EXCEPT !.subdomains = found]
                 /\ UNCHANGED toolFailed
    /\ UNCHANGED <<resuming, checkpoint_data, wr, alive_domains_text, batch_size,
                   total_batches, batch_idx, all_alive, results, ckptFile, alive_txt,
                   results_txt, scan_state_json, exit_code, lastEnd, runs, loaded, prev,
                   sigkilled, lockVars, callVars>>

\* _run_subfinder line 579.
SubfinderStats ==
    /\ pc = "subfinder_stats"
    /\ ~wr
    /\ StartWrite(update_statistics(checkpoint_data, "subdomains_found", subdomains))
    /\ pc' = "subfinder_done"
    /\ UNCHANGED <<resuming, scan_state, localVars, files, subdomains_txt, alive_txt,
                   results_txt, scan_state_json, cache, histVars, lockVars, callVars>>

\* _run_subfinder lines 582-590.
SubfinderDone ==
    /\ pc = "subfinder_done"
    /\ ~wr
    /\ StartWrite(update_phase_status(checkpoint_data, "subdomain_enumeration",
                                      "completed", 100, subdomains))
    /\ pc' = "step2"
    /\ UNCHANGED <<resuming, scan_state, localVars, files, subdomains_txt, alive_txt,
                   results_txt, scan_state_json, cache, histVars, lockVars, callVars>>

\* scan() step 2 when the phase is skipped: alive.txt is read back.
LoadAlive ==
    /\ pc = "step2"
    /\ ~wr
    /\ ~ShouldRunPhase("alive_check")
    /\ IF "alive.txt" \in files
       THEN /\ alive_domains_text' = alive_txt
            /\ pc' = "step3"
       ELSE /\ pc' = "error"
            /\ UNCHANGED alive_domains_text
    /\ UNCHANGED <<resuming, checkpoint_data, scan_state, wr, subdomains, batch_size,
                   total_batches, batch_idx, all_alive, results, diskVars, histVars,
                   lockVars, callVars>>

\* _run_httpx lines 636-640: _initialize_alive_check_phase.
RunHttpxStart ==
    /\ pc = "step2"
    /\ ~wr
    /\ ShouldRunPhase("alive_check")
    /\ StartWrite(update_phase_status(checkpoint_data, "alive_check", "in_progress", 0, 0))
    /\ pc' = "httpx_tool"
    /\ UNCHANGED <<resuming, scan_state, localVars, files, subdomains_txt, alive_txt,
                   results_txt, scan_state_json, cache, histVars, lockVars, callVars>>

\* _run_httpx lines 640-664 and _process_httpx_batches lines 732-739.
RunHttpxTool ==
    /\ pc = "httpx_tool"
    /\ ~wr
    /\ \E installed \in BOOLEAN, mem \in MemoryLevels :
        LET processed_count == _get_alive_check_resume_state(checkpoint_data, resuming)
            bs == _adaptive_batch_size(subdomains, mem)
        IN  IF ~installed
            THEN /\ pc' = "error"
                 /\ toolFailed' = TRUE
                 /\ UNCHANGED <<scan_state, batch_size, total_batches, batch_idx, all_alive,
                                files>>
            ELSE /\ pc' = "httpx_loop"
                 /\ scan_state' = [scan_state EXCEPT !.status = "checking_alive_domains"]
                 /\ files' = files \cup {"httpx_input.tmp"}
                 /\ batch_size' = bs
                 /\ total_batches' = BatchCount(subdomains, bs)
                 /\ batch_idx' = IF processed_count > 0 THEN processed_count \div bs ELSE 0
                 /\ all_alive' = <<>>
                 /\ UNCHANGED toolFailed
    /\ UNCHANGED <<resuming, checkpoint_data, wr, subdomains, alive_domains_text, results,
                   ckptFile, subdomains_txt, alive_txt, results_txt, scan_state_json, cache,
                   exit_code, lastEnd, runs, calls, loaded, prev, sigkilled,
                   lockVars, callVars>>

\* _process_single_httpx_batch line 776: _update_batch_checkpoint.
UpdateBatchCheckpoint ==
    /\ pc = "httpx_loop"
    /\ ~wr
    /\ batch_idx < total_batches
    /\ StartWrite(update_checkpoint(checkpoint_data, "alive_check",
                      BatchCheckpointKwargs(batch_idx, batch_size, total_batches)))
    /\ pc' = "httpx_batch"
    /\ UNCHANGED <<resuming, scan_state, localVars, files, subdomains_txt, alive_txt,
                   results_txt, scan_state_json, cache, histVars, lockVars, callVars>>

\* A _run_httpx without its finally branch: the exception leaves the input file.
RunHttpxBatch_leaves ==
    /\ pc = "httpx_batch"
    /\ ~wr
    /\ \E ok \in BOOLEAN :
        \E out \in HttpxOutputs(BatchOf(subdomains, batch_idx, batch_size)) :
            IF ok
            THEN /\ calls' = [calls EXCEPT !.httpx = @ + 1]
                 /\ all_alive' = all_alive \o out
                 /\ pc' = "httpx_progress"
                 /\ UNCHANGED <<toolFailed, files>>
            ELSE \* subprocess.CalledProcessError
                 /\ calls' = [calls EXCEPT !.httpx = @ + 1,
                                          !.exit_nonzero = "alive_check"]
                 /\ pc' = "error"
                 /\ toolFailed' = TRUE
                 /\ UNCHANGED files
                 /\ UNCHANGED all_alive
    /\ UNCHANGED <<resuming, checkpoint_data, scan_state, wr, subdomains,
                   alive_domains_text, batch_size, total_batches, batch_idx, results,
                   ckptFile, subdomains_txt, alive_txt, results_txt, scan_state_json, cache,
                   exit_code, lastEnd, runs, loaded, prev, sigkilled, lockVars, callVars>>

\* _process_single_httpx_batch lines 779-780: _run_httpx_batch, whose own
\* temporary file is written and unlinked within the call.  The exception of
\* a failed subprocess passes the finally branch of _run_httpx (668-673), which
\* unlinks the input file.
RunHttpxBatch ==
    /\ pc = "httpx_batch"
    /\ ~wr
    /\ \E ok \in BOOLEAN :
        \E out \in HttpxOutputs(BatchOf(subdomains, batch_idx, batch_size)) :
            IF ok
            THEN /\ calls' = [calls EXCEPT !.httpx = @ + 1]
                 /\ all_alive' = all_alive \o out
                 /\ pc' = "httpx_progress"
                 /\ UNCHANGED <<toolFailed, files>>
            ELSE \* subprocess.CalledProcessError
                 /\ calls' = [calls EXCEPT !.httpx = @ + 1,
                                          !.exit_nonzero = "alive_check"]
                 /\ pc' = "error"
                 /\ toolFailed' = TRUE
                 /\ files' = files \ {"httpx_input.tmp"}
                 /\ UNCHANGED all_alive
    /\ UNCHANGED <<resuming, checkpoint_data, scan_state, wr, subdomains,
                   alive_domains_text, batch_size, total_batches, batch_idx, results,
                   ckptFile, subdomains_txt, alive_txt, results_txt, scan_state_json, cache,
                   exit_code, lastEnd, runs, loaded, prev, sigkilled, lockVars, callVars>>

\* _process_single_httpx_batch lines 783-788: _update_httpx_progress.
UpdateHttpxProgress ==
    /\ pc = "httpx_progress"
    /\ ~wr
    /\ StartWrite(update_phase_status(checkpoint_data, "alive_check", "in_progress",
                      ((batch_idx + 1) * 100) \div total_batches, Len(all_alive)))
    /\ scan_state' = [scan_state EXCEPT !.alive_subdomains = Len(all_alive)]
    /\ batch_idx' = batch_idx + 1
    /\ pc' = "httpx_loop"
    /\ UNCHANGED <<resuming, subdomains, alive_domains_text, batch_size, total_batches,
                   all_alive, results, files, subdomains_txt, alive_txt, results_txt,
                   scan_state_json, cache, histVars, lockVars, callVars>>

\* _process_httpx_batches line 747 and _save_alive_results lines 836-839.
SaveAliveFile ==
    /\ pc = "httpx_loop"
    /\ ~wr
    /\ batch_idx >= total_batches
    /\ alive_domains_text' = Sorted(all_alive)
    /\ alive_txt' = Sorted(all_alive)
    /\ files' = files \cup {"alive.txt"}
    /\ pc' = "alive_stats"
    /\ UNCHANGED <<resuming, checkpoint_data, scan_state, wr, subdomains, batch_size,
                   total_batches, batch_idx, all_alive, results, ckptFile, subdomains_txt,
                   results_txt, scan_state_json, cache, histVars, lockVars, callVars>>

\* _save_alive_results line 842.
AliveStats ==
    /\ pc = "alive_stats"
    /\ ~wr
    /\ StartWrite(update_statistics(checkpoint_data, "alive_subdomains", Len(all_alive)))
    /\ pc' = "alive_done"
    /\ UNCHANGED <<resuming, scan_state, localVars, files, subdomains_txt, alive_txt,
                   results_txt, scan_state_json, cache, histVars, lockVars, callVars>>

\* _save_alive_results lines 845-853, and the return of _run_httpx through its
\* finally branch, which unlinks the input file.
AliveDone ==
    /\ pc = "alive_done"
    /\ ~wr
    /\ StartWrite(update_phase_status(checkpoint_data, "alive_check", "completed", 100,
                                      Len(all_alive)))
    /\ files' = files \ {"httpx_input.tmp"}
    /\ pc' = "step3"
    /\ UNCHANGED <<resuming, scan_state, localVars, subdomains_txt, alive_txt,
                   results_txt, scan_state_json, cache, histVars, lockVars, callVars>>

\* scan() step 3 when the phase is skipped.
SkipNuclei ==
    /\ pc = "step3"
    /\ ~wr
    /\ ~ShouldRunPhase("vulnerability_scan")
    /\ pc' = "scan_complete"
    /\ UNCHANGED <<resuming, checkpoint_data, scan_state, wr, localVars, diskVars,
                   histVars, lockVars, callVars>>

\* _run_nuclei lines 1114-1123.
RunNucleiStart ==
    /\ pc = "step3"
    /\ ~wr
    /\ ShouldRunPhase("vulnerability_scan")
    /\ StartWrite(update_phase_status(checkpoint_data, "vulnerability_scan",
                                      "in_progress", 0, 0))
    /\ scan_state' = [scan_state EXCEPT !.status = "scanning_vulnerabilities"]
    /\ pc' = "nuclei_tool"
    /\ UNCHANGED <<resuming, localVars, files, subdomains_txt, alive_txt, results_txt,
                   scan_state_json, cache, histVars, lockVars, callVars>>

\* _run_nuclei lines 1126-1153 and _count_targets_and_calculate_batches.
RunNucleiTool ==
    /\ pc = "nuclei_tool"
    /\ ~wr
    /\ \E installed \in BOOLEAN, mem \in MemoryLevels :
        LET targets_count == Len(alive_domains_text)
            bs == _adaptive_batch_size(targets_count, mem)
        IN  IF ~installed
            THEN /\ pc' = "error"
                 /\ toolFailed' = TRUE
                 /\ UNCHANGED <<batch_size, total_batches, batch_idx, results, files,
                                alive_txt>>
            ELSE IF targets_count = 0
            THEN \* "No alive domains found, skipping nuclei scan"
                 /\ pc' = "nuclei_empty"
                 /\ UNCHANGED <<batch_size, total_batches, batch_idx, results, files,
                                alive_txt, toolFailed>>
            ELSE /\ pc' = "nuclei_loop"
                 /\ alive_txt' = alive_domains_text
                 /\ files' = files \cup {"alive.txt"}
                 /\ batch_size' = bs
                 /\ total_batches' = BatchCount(targets_count, bs)
                 /\ batch_idx' = 0
                 /\ results' = <<>>
                 /\ UNCHANGED toolFailed
    /\ UNCHANGED <<resuming, checkpoint_data, scan_state, wr, subdomains,
                   alive_domains_text, all_alive, ckptFile, subdomains_txt, results_txt,
                   scan_state_json, cache, exit_code, lastEnd, runs, calls, loaded, prev,
                   sigkilled, lockVars, callVars>>

\* _run_nuclei lines 1133-1141: nothing to scan, the phase is completed.
NucleiEmptyDone ==
    /\ pc = "nuclei_empty"
    /\ ~wr
    /\ StartWrite(update_phase_status(checkpoint_data, "vulnerability_scan",
                                      "completed", 100, 0))
    /\ pc' = "scan_complete"
    /\ UNCHANGED <<resuming, scan_state, localVars, files, subdomains_txt, alive_txt,
                   results_txt, scan_state_json, cache, histVars, lockVars, callVars>>

\* _run_nuclei_single_batch without its except branch: the failure of a batch's
\* subprocess leaves _process_nuclei_batches and ends the phase.
RunNucleiBatch_aborts ==
    /\ pc = "nuclei_batch"
    /\ ~wr
    /\ pc' = "nuclei_loop"
    /\ files' = files \ {"nuclei_batch.txt"}
    /\ calls' = [calls EXCEPT !.nuclei = @ + 1]
    /\ \E ok \in BOOLEAN, found \in 0..1 :
        /\ results' = IF ok THEN Append(results, [vulnerabilities |-> found, error |-> FALSE])
                      ELSE results
        /\ toolFailed' = (toolFailed \/ ~ok)
        /\ batch_idx' = IF ok THEN batch_idx + 1 ELSE total_batches
    /\ UNCHANGED <<resuming, checkpoint_data, scan_state, wr, subdomains,
                   alive_domains_text, batch_size, total_batches, all_alive, ckptFile,
                   subdomains_txt, alive_txt, results_txt, scan_state_json, cache,
                   exit_code, lastEnd, runs, loaded, prev, sigkilled, lockVars, callVars>>

\* One iteration of _process_nuclei_batches, first half: _create_batch_file and
\* _write_batch_from_source write the targets of the batch.
WriteNucleiBatchFile ==
    /\ pc = "nuclei_loop"
    /\ ~wr
    /\ batch_idx < total_batches
    /\ pc' = "nuclei_batch"
    /\ files' = files \cup {"nuclei_batch.txt"}
    /\ UNCHANGED <<resuming, checkpoint_data, scan_state, wr, localVars, ckptFile,
                   subdomains_txt, alive_txt, results_txt, scan_state_json, cache,
                   histVars, lockVars, callVars>>

\* One iteration of _process_nuclei_batches, second half:
\* _run_nuclei_single_batch, and _clean_batch_file in the finally branch.  A
\* failed subprocess is caught and recorded with zero vulnerabilities and an
\* error.
RunNucleiBatch ==
    /\ pc = "nuclei_batch"
    /\ ~wr
    /\ pc' = "nuclei_loop"
    /\ files' = files \ {"nuclei_batch.txt"}
    /\ calls' = [calls EXCEPT !.nuclei = @ + 1]
    /\ \E ok \in BOOLEAN, found \in 0..1 :
        /\ results' = Append(results,
                        IF ok THEN [vulnerabilities |-> found, error |-> FALSE]
                              ELSE [vulnerabilities |-> 0, error |-> TRUE])
        /\ toolFailed' = (toolFailed \/ ~ok)
    /\ batch_idx' = batch_idx + 1
    /\ UNCHANGED <<resuming, checkpoint_data, scan_state, wr, subdomains,
                   alive_domains_text, batch_size, total_batches, all_alive, ckptFile,
                   subdomains_txt, alive_txt, results_txt, scan_state_json, cache,
                   exit_code, lastEnd, runs, loaded, prev, sigkilled, lockVars, callVars>>

\* _run_nuclei lines 1160-1172: no batch result carries "raw_result", so the
\* text written to results.txt is empty; the count is the number of batches.
SaveResultsFile ==
    /\ pc = "nuclei_loop"
    /\ ~wr
    /\ batch_idx >= total_batches
    /\ results_txt' = <<>>
    /\ files' = files \cup {"results.txt"}
    /\ scan_state' = [scan_state EXCEPT !.vulnerabilities = Len(results)]
    /\ pc' = "nuclei_stats"
    /\ UNCHANGED <<resuming, checkpoint_data, wr, localVars, ckptFile, subdomains_txt,
                   alive_txt, scan_state_json, cache, histVars, lockVars, callVars>>

\* _run_nuclei line 1175.
NucleiStats ==
    /\ pc = "nuclei_stats"
    /\ ~wr
    /\ StartWrite(update_statistics(checkpoint_data, "vulnerabilities_found", Len(results)))
    /\ pc' = "nuclei_done"
    /\ UNCHANGED <<resuming, scan_state, localVars, files, subdomains_txt, alive_txt,
                   results_txt, scan_state_json, cache, histVars, lockVars, callVars>>

\* _run_nuclei lines 1178-1186.
NucleiDone ==
    /\ pc = "nuclei_done"
    /\ ~wr
    /\ StartWrite(update_phase_status(checkpoint_data, "vulnerability_scan",
                                      "completed", 100, Len(results)))
    /\ pc' = "scan_complete"
    /\ UNCHANGED <<resuming, scan_state, localVars, files, subdomains_txt, alive_txt,
                   results_txt, scan_state_json, cache, histVars, lockVars, callVars>>

\* scan() lines 1255-1256.
ScanComplete ==
    /\ pc = "scan_complete"
    /\ ~wr
    /\ scan_state' = [scan_state EXCEPT !.status = "completed"]
    /\ StartWrite(set_scan_status(checkpoint_data, "completed"))
    /\ pc' = "scan_finalize"
    /\ UNCHANGED <<resuming, localVars, files, subdomains_txt, alive_txt, results_txt,
                   scan_state_json, cache, histVars, lockVars, callVars>>

\* scan() lines 1259-1283: _save_scan_state, save_checkpoint, and with notify
\* the call self.notifier.send_completion_notification(...), still inside the
\* try block; it returns or raises as the start notification does.
ScanFinalize ==
    /\ pc = "scan_finalize"
    /\ ~wr
    /\ scan_state_json' = scan_state
    /\ files' = files \cup {"scan_state.json"}
    /\ StartWrite(checkpoint_data)
    /\ \E raised \in BOOLEAN :
        /\ pc' = IF raised THEN "error" ELSE "exit_ok"
        /\ calls' = IF raised THEN [calls EXCEPT !.notify_raised = "completion"] ELSE calls
    /\ UNCHANGED <<resuming, scan_state, localVars, subdomains_txt, alive_txt,
                   results_txt, cache, exit_code, lastEnd, runs, loaded, prev,
                   toolFailed, sigkilled, lockVars, callVars>>

\* scan() returns and the command ends with exit code 0.
ExitOk ==
    /\ pc = "exit_ok"
    /\ ~wr
    /\ ProcessGone
    /\ exit_code' = 0
    /\ lastEnd' = "completed"
    /\ prev' = NoPrev
    /\ UNCHANGED <<diskVars, runs, calls, loaded, toolFailed, sigkilled, lockVars, callVars>>

\* scan() lines 1285-1299, the except branch.  An error notification that
\* raises replaces the exception that is propagated; the state is the same.
ScanError ==
    /\ pc = "error"
    /\ ~wr
    /\ scan_state' = [scan_state EXCEPT !.status = "failed"]
    /\ scan_state_json' = [scan_state EXCEPT !.status = "failed"]
    /\ files' = files \cup {"scan_state.json"}
    /\ StartWrite(set_scan_status(checkpoint_data, "failed"))
    /\ pc' = "exit_error"
    /\ UNCHANGED <<resuming, localVars, subdomains_txt, alive_txt, results_txt, cache,
                   histVars, lockVars, callVars>>

\* scan() line 1299: the exception reaches the command, which exits with 1.
ExitError ==
    /\ pc = "exit_error"
    /\ ~wr
    /\ ProcessGone
    /\ exit_code' = 1
    /\ lastEnd' = "error"
    /\ prev' = NoPrev
    /\ UNCHANGED <<diskVars, runs, calls, loaded, toolFailed, sigkilled, lockVars, callVars>>

\* _run_command_async: subprocess.run(command, capture_output=True, text=True,
\* shell=shell, check=True) is given no timeout; a tool that never exits leaves
\* the scan awaiting the executor.  The subprocess is the one RunSubfinderTool,
\* RunHttpxBatch or RunNucleiBatch would start.
ToolHangs ==
    /\ ~wr
    /\ \/ /\ pc = "subfinder_run"
          /\ \E fresh \in BOOLEAN :
                /\ _get_cached_result(fresh) = 0
                /\ calls' = [calls EXCEPT !.subfinder = @ + 1,
                                          !.cache_entry = CacheEntry(fresh),
                                          !.cached_stdout = 0]
          /\ pc' = "subfinder_hung"
       \/ /\ pc = "httpx_batch"
          /\ calls' = [calls EXCEPT !.httpx = @ + 1]
          /\ pc' = "httpx_hung"
       \/ /\ pc = "nuclei_batch"
          /\ calls' = [calls EXCEPT !.nuclei = @ + 1]
          /\ pc' = "nuclei_hung"
    /\ UNCHANGED <<resuming, checkpoint_data, scan_state, wr, localVars, diskVars,
                   exit_code, lastEnd, runs, loaded, prev, toolFailed, sigkilled,
                   lockVars, callVars>>

\* The positions at which the handlers of _setup_signal_handlers are installed.
HandlerInstalled == pc \notin {"idle", "setup_tools", "resume_init"}

\* Batches of alive_check finished by the running process.
BatchesDone ==
    CASE pc \in {"httpx_loop", "httpx_batch", "httpx_hung"} -> batch_idx
      [] pc = "httpx_progress" -> batch_idx + 1
      [] OTHER -> 0

\* SIGINT or SIGTERM: SecurityScanner._handle_interrupt, then sys.exit(1).  The
\* handler writes the paused checkpoint.  SystemExit and the cancellation of
\* the task unwind the finally branches, which unlink the scratch files.  When
\* the signal arrived inside _write_checkpoint, SystemExit then unwinds through
\* its `with open(...)`, whose close flushes the buffered part of the
\* interrupted dump over the beginning of the handler's document.
HandleInterrupt ==
    /\ HandlerInstalled
    /\ LET paused == set_scan_status(checkpoint_data, "paused") IN
        \/ ckptFile' = FileDoc(paused)
        \/ wr /\ ckptFile' = FilePartial
    /\ scan_state_json' = [scan_state EXCEPT !.status = "paused"]
    /\ files' = (files \cup {"scan_state.json"}) \ {"httpx_input.tmp", "nuclei_batch.txt"}
    /\ prev' = IF pc \in {"httpx_loop", "httpx_batch", "httpx_progress", "httpx_hung"}
               THEN [hit |-> TRUE, k |-> BatchesDone, n |-> total_batches,
                     bs |-> batch_size, found |-> all_alive]
               ELSE NoPrev
    /\ ProcessGone
    /\ exit_code' = 1
    /\ lastEnd' = "sigint"
    /\ UNCHANGED <<subdomains_txt, alive_txt, results_txt, cache, runs, calls, loaded,
                   toolFailed, sigkilled, lockVars, callVars>>

\* SIGKILL: the process stops where it is.
Kill ==
    /\ pc # "idle"
    /\ ProcessGone
    /\ exit_code' = 137
    /\ lastEnd' = "sigkill"
    /\ sigkilled' = TRUE
    /\ prev' = NoPrev
    /\ UNCHANGED <<diskVars, runs, calls, loaded, toolFailed, lockVars, callVars>>

Init == LockInit /\ ScanInit /\ CallInit

Next ==
    \/ ScanCommand
    \/ ResumeCommand
    \/ ResumeInit
    \/ SetupTools
    \/ WriteCheckpoint
    \/ ScanBegin
    \/ LoadSubdomains
    \/ RunSubfinderStart
    \/ RunSubfinderTool
    \/ SubfinderStats
    \/ SubfinderDone
    \/ LoadAlive
    \/ RunHttpxStart
    \/ RunHttpxTool
    \/ UpdateBatchCheckpoint
    \/ RunHttpxBatch
    \/ UpdateHttpxProgress
    \/ SaveAliveFile
    \/ AliveStats
    \/ AliveDone
    \/ SkipNuclei
    \/ RunNucleiStart
    \/ RunNucleiTool
    \/ NucleiEmptyDone
    \/ WriteNucleiBatchFile
    \/ RunNucleiBatch
    \/ SaveResultsFile
    \/ NucleiStats
    \/ NucleiDone
    \/ ScanComplete
    \/ ScanFinalize
    \/ ExitOk
    \/ ScanError
    \/ ExitError
    \/ ToolHangs
    \/ HandleInterrupt
    \/ Kill

Spec == Init /\ [][Next]_vars

TypeOK ==
    /\ pc \in STRING
    /\ wr \in BOOLEAN
    /\ runs \in 0..MaxRuns
    /\ ckptFile.state \in {"absent", "partial", "doc"}

(***************************************************************************)
(* Part 4.  The properties                                                 *)
(***************************************************************************)

Range(l) == {l[i] : i \in 1..Len(l)}

\* C1: in a resumed scan, a phase the loaded checkpoint marks completed has its
\* external tool invoked zero times, whichever phases are completed.
C1_CompletedPhaseNotRerun ==
    \A ph \in Phases :
        (resuming /\ loaded[ph] = "completed") => calls[ToolOf(ph)] = 0

\* A resumed scan ran to its end with enumeration and probing completed in the
\* loaded checkpoint: it scanned for vulnerabilities without calling their tools.
C1_Witness ==
    /\ resuming
    /\ pc = "exit_ok"
    /\ loaded["subdomain_enumeration"] = "completed"
    /\ loaded["alive_check"] = "completed"
    /\ loaded["vulnerability_scan"] # "completed"
    /\ calls.nuclei > 0
    /\ calls.subfinder = 0
    /\ calls.httpx = 0

\* C2: a scan interrupted by SIGINT in alive_check after k of N batches, then
\* resumed from the checkpoint it persisted, with the same batch size, runs
\* exactly the N - k remaining batches.
C2_ResumeRunsRemainingBatches ==
    (/\ resuming
     /\ prev.hit
     /\ pc = "alive_stats"
     /\ batch_size = prev.bs
     /\ total_batches = prev.n)
    => calls.httpx = prev.n - prev.k

\* C3: the alive hosts found by the batches completed before the interruption are
\* in alive.txt, and counted in the statistic, once the resumed alive_check is done.
C3_EarlierAliveResultsKept ==
    (/\ resuming
     /\ prev.hit
     /\ pc = "step3"
     /\ ~wr)
    => /\ Range(prev.found) \subseteq Range(alive_txt)
       /\ ckptFile.doc.statistics.alive_subdomains >= Cardinality(Range(prev.found))

\* C4: after any sequence of SIGINT interruptions, each followed by a resume, a
\* resume that is not interrupted ends with exit code 0, checkpoint status
\* completed and scan_state.json present, when the external tools succeed.
C4_FinalResumeCompletes ==
    (/\ pc = "idle"
     /\ runs >= 2
     /\ lastEnd \in {"completed", "error", "load_failed"}
     /\ ~toolFailed
     /\ ~sigkilled)
    => /\ exit_code = 0
       /\ load_checkpoint(ckptFile)
       /\ ckptFile.doc.status = "completed"
       /\ "scan_state.json" \in files

\* A phase that has begun or is completed has all its predecessors completed.
PhaseOrder(d) ==
    \A i \in 1..3 : \A j \in 1..3 :
        (i < j /\ d.phases[PhaseNames[j]].status \in {"in_progress", "completed"})
        => d.phases[PhaseNames[i]].status = "completed"

\* C5: in every state of a fresh or resumed scan, in memory and on disk, a phase
\* that is in_progress or completed has every earlier phase completed.
C5_PhasesInOrder ==
    /\ (pc # "idle" => PhaseOrder(checkpoint_data))
    /\ (load_checkpoint(ckptFile) => PhaseOrder(ckptFile.doc))

\* A resumed scan has completed its last phase on disk.
C5_Witness ==
    /\ resuming
    /\ load_checkpoint(ckptFile)
    /\ ckptFile.doc.phases["vulnerability_scan"].status = "completed"
    /\ loaded["alive_check"] = "in_progress"

\* C6: after SIGINT or SIGTERM at any point of scan(), the process has exited
\* non-zero and the checkpoint on disk is a complete document with status paused.
C6_InterruptLeavesPausedCheckpoint ==
    (pc = "idle" /\ lastEnd = "sigint")
    => /\ exit_code # 0
       /\ load_checkpoint(ckptFile)
       /\ ckptFile.doc.status = "paused"

\* C7: when a scan ends with an unrecoverable error, the checkpoint on disk has
\* status failed and scan_state.json holds the final scan state.
C7_ErrorLeavesFailedCheckpoint ==
    (pc = "idle" /\ lastEnd = "error")
    => /\ exit_code # 0
       /\ load_checkpoint(ckptFile)
       /\ ckptFile.doc.status = "failed"
       /\ "scan_state.json" \in files
       /\ scan_state_json.status = "failed"

\* C8: after the process was killed at an arbitrary point, the checkpoint file is
\* a complete document that load_checkpoint accepts.
C8_KillLeavesLoadableCheckpoint ==
    (pc = "idle" /\ lastEnd = "sigkill") => load_checkpoint(ckptFile)

\* The states in which the claims C2, C3, C4, C6, C7 and C8 fail.
C2_AllBatchesRunAgain ==
    /\ resuming
    /\ prev.hit
    /\ prev.n = 2
    /\ prev.k = 1
    /\ pc = "alive_stats"
    /\ batch_size = prev.bs
    /\ total_batches = prev.n
    /\ calls.httpx = 2

C3_EarlierResultMissing ==
    /\ resuming
    /\ prev.hit
    /\ pc = "step3"
    /\ ~wr
    /\ Range(prev.found) # {}
    /\ alive_txt = <<>>
    /\ ckptFile.doc.statistics.alive_subdomains = 0

C4_ResumeRefused ==
    /\ pc = "idle"
    /\ runs = 2
    /\ lastEnd = "load_failed"
    /\ exit_code = 1
    /\ ~toolFailed
    /\ ~sigkilled
    /\ ckptFile = FilePartial

C6_TornAfterInterrupt ==
    /\ pc = "idle"
    /\ lastEnd = "sigint"
    /\ exit_code = 1
    /\ ckptFile = FilePartial

C7_InitErrorLeavesInProgress ==
    /\ pc = "idle"
    /\ lastEnd = "error"
    /\ runs = 1
    /\ exit_code = 1
    /\ load_checkpoint(ckptFile)
    /\ ckptFile.doc.status = "in_progress"
    /\ "scan_state.json" \notin files

C8_TornAfterKill ==
    /\ pc = "idle"
    /\ lastEnd = "sigkill"
    /\ ckptFile = FilePartial

LockSpec == Init /\ [][LockNext /\ UNCHANGED <<scanVars, callVars>>]_vars

\* The scheduler lets a process that is inside acquire() run: its loop goes on
\* whatever the other process does.  Nothing makes the holder of the lock
\* proceed.
LockFairSpec == LockSpec /\ \A p \in Procs : WF_lockVars(TryLock(p))

\* C9: at no time do two processes hold the lock at once.
C9_MutualExclusion ==
    \A p \in Procs : \A q \in Procs : (acquired[p] /\ acquired[q]) => p = q

\* C10: every mutating operation changes checkpoint_data and writes the
\* checkpoint file only while its process holds the lock.
C10_ModifyAndWriteUnderLock ==
    \A p \in Procs : lpc[p] \in {"modify", "write"} => acquired[p]

\* The states in which the claims C9 and C10 fail.
C9_BothHold == acquired["scan"] /\ acquired["resume"]

C10_WriteWithoutLock ==
    \E p \in Procs : lpc[p] = "write" /\ ~acquired[p] /\ op[p] = "update_phase_status"

\* C11: once a process has left a `with FileLock` block, normally or by an
\* exception of the body, release() has run and the process holds no lock.
C11_BlockExitReleases ==
    \A p \in Procs :
        (lpc[p] \in {"unlink", "idle"} /\ lastExit[p] # "none")
        => /\ ~acquired[p]
           /\ lock_handle[p] = 0
           /\ \A i \in Inodes : flock[i] # p

\* A process that held the lock has left its block by an exception while the
\* other process is waiting for the lock.
C11_Witness ==
    /\ lpc["scan"] = "idle"
    /\ lastExit["scan"] = "exception"
    /\ lpc["resume"] = "acquire"
    /\ waited["resume"] > 0

(***************************************************************************)
(* Part 5.  repair_checkpoint and verify_checkpoint_integrity              *)
(***************************************************************************)

required_fields ==
    <<"scan_id", "domain", "start_time", "last_update", "status",
      "phases", "statistics", "environment">>

required_stats == <<"subdomains_found", "alive_subdomains", "vulnerabilities_found">>

\* CheckpointManager.domain of the manager that repairs and verifies.
self_domain == "example.com"

_create_default_environment == [tool_versions |-> <<>>, templates_hash |-> ""]

\* `not self.checkpoint_data`: None and the empty dict are falsy.
NotInitialized(d) == DOMAIN d = {}

\* The document d without the keys of S.
Without(d, S) == [x \in (DOMAIN d) \ S |-> d[x]]

_add_missing_field(d, field) ==
    CASE field = "scan_id" -> ("scan_id" :> "scan-2") @@ d
      [] field = "domain" -> ("domain" :> self_domain) @@ d
      [] field \in {"start_time", "last_update"} -> (field :> "now") @@ d
      [] field = "status" -> ("status" :> "in_progress") @@ d
      [] field = "phases" -> ("phases" :> _create_default_phases) @@ d
      [] field = "statistics" -> ("statistics" :> _create_default_statistics) @@ d
      [] field = "environment" -> ("environment" :> _create_default_environment) @@ d
      [] OTHER -> d

\* The loop of _repair_missing_fields from the i-th required field on.
RECURSIVE RepairFieldsFrom(_, _)
RepairFieldsFrom(d, i) ==
    IF i > Len(required_fields) THEN d
    ELSE RepairFieldsFrom(IF required_fields[i] \notin DOMAIN d
                          THEN _add_missing_field(d, required_fields[i]) ELSE d,
                          i + 1)

_repair_missing_fields(d) == RepairFieldsFrom(d, 1)

\* A _repair_missing_phases that replaces the phases by the default ones.
_repair_missing_phases_reset(d) ==
    IF "phases" \notin DOMAIN d THEN d
    ELSE [d EXCEPT !["phases"] = _create_default_phases]

_repair_missing_phases(d) ==
    IF "phases" \notin DOMAIN d THEN d
    ELSE [d EXCEPT !["phases"] =
            [ph \in (DOMAIN @) \cup Phases |->
                IF ph \in DOMAIN @ THEN @[ph]
                ELSE [status |-> "pending", progress_percentage |-> 0, results_count |-> 0]]]

\* CheckpointManager.repair_checkpoint: the value returned and checkpoint_data after it.
repair_checkpoint(d) ==
    IF NotInitialized(d) THEN [ok |-> FALSE, doc |-> d]
    ELSE [ok |-> TRUE, doc |-> _repair_missing_phases(_repair_missing_fields(d))]

\* The issues a loop over the sequence `keys` reports for the keys failing `Present`.
Issues(keys, present, kind) ==
    LET missing == SelectSeq(keys, LAMBDA k : k \notin present)
    IN  [i \in 1..Len(missing) |-> <<kind, missing[i]>>]

\* CheckpointManager.verify_checkpoint_integrity: (is_valid, issues).
verify_checkpoint_integrity(d) ==
    IF NotInitialized(d)
    THEN [is_valid |-> FALSE, issues |-> << <<"Checkpoint not initialized", "">> >>]
    ELSE LET fieldIssues == Issues(required_fields, DOMAIN d,
                                   "Missing required field")
         IN  IF Len(fieldIssues) > 0
             THEN [is_valid |-> FALSE, issues |-> fieldIssues]
             ELSE LET domainIssues ==
                          IF d["domain"] # self_domain
                          THEN << <<"Domain mismatch", d["domain"]>> >> ELSE <<>>
                      phaseIssues ==
                          Issues(PhaseNames, DOMAIN d["phases"],
                                 "Missing phase")
                          \o Issues(SelectSeq(PhaseNames, LAMBDA ph : ph \in DOMAIN d["phases"]),
                                    {ph \in DOMAIN d["phases"] :
                                        {"status", "progress_percentage", "results_count"}
                                            \subseteq DOMAIN d["phases"][ph]},
                                    "Missing data in phase")
                      statIssues ==
                          Issues(required_stats, DOMAIN d["statistics"],
                                 "Missing statistic")
                      envIssues ==
                          IF "tool_versions" \notin DOMAIN d["environment"]
                          THEN << <<"Missing tool versions in environment", "">> >> ELSE <<>>
                      issues == domainIssues \o phaseIssues \o statIssues \o envIssues
                  IN  [is_valid |-> Len(issues) = 0, issues |-> issues]

\* Well-formed checkpoints of a scan: a new one, one part-way, a completed one.
SampleCheckpoints ==
    LET started == update_phase_status(initialize_checkpoint, "subdomain_enumeration",
                                       "completed", 100, 2)
        partway == update_checkpoint(
                       update_phase_status(update_statistics(started, "subdomains_found", 2),
                                           "alive_check", "in_progress", 50, 1),
                       "alive_check", BatchCheckpointKwargs(1, 5, 2))
        done == set_scan_status(
                    update_phase_status(
                        update_phase_status(partway, "alive_check", "completed", 100, 1),
                        "vulnerability_scan", "completed", 100, 1),
                    "completed")
    IN  {initialize_checkpoint, partway, done}

\* A manager holds a checkpoint from which some of the required fields are gone.
\* Checkpoint files repair_checkpoint() may meet: those of this domain, one
\* written by a scan of another domain, and one that lost a phase entry.
RepairSamples ==
    SampleCheckpoints
    \cup {[d EXCEPT !.domain = "other.org"] : d \in SampleCheckpoints}
    \cup {[d EXCEPT !.phases = Without(@, {"vulnerability_scan"})] : d \in SampleCheckpoints}

RepairInit ==
    /\ LockInit
    /\ ScanInit
    /\ ret = NoRet
    /\ \E d \in RepairSamples : \E S \in SUBSET {required_fields[i] : i \in 1..8} :
        arg = [op |-> "repair_checkpoint", doc |-> Without(d, S), missing |-> S]

\* repair_checkpoint() is called on the document.
CallRepair ==
    /\ arg.op = "repair_checkpoint"
    /\ ret.op = "none"
    /\ ret' = [op |-> "repair_checkpoint", ok |-> repair_checkpoint(arg.doc).ok,
               doc |-> repair_checkpoint(arg.doc).doc]
    /\ ckptFile' = IF repair_checkpoint(arg.doc).ok
                   THEN FileDoc(repair_checkpoint(arg.doc).doc) ELSE ckptFile
    /\ UNCHANGED <<arg, lockVars, procVars, localVars, files, subdomains_txt, alive_txt,
                   results_txt, scan_state_json, cache, histVars>>

\* verify_checkpoint_integrity() is called on what repair_checkpoint() left.
CallVerify ==
    /\ ret.op = "repair_checkpoint"
    /\ ret' = [op |-> "verify_checkpoint_integrity", ok |-> ret.ok, doc |-> ret.doc,
               is_valid |-> verify_checkpoint_integrity(ret.doc).is_valid,
               issues |-> verify_checkpoint_integrity(ret.doc).issues]
    /\ UNCHANGED <<arg, lockVars, scanVars>>

RepairNext == CallRepair \/ CallVerify

RepairSpec == RepairInit /\ [][RepairNext]_vars

\* C12: for a checkpoint missing any subset of the eight required fields,
\* repair_checkpoint() returns True and verify_checkpoint_integrity() then
\* returns (True, []).
C12_RepairThenVerify ==
    ret.op = "verify_checkpoint_integrity"
    => (ret.ok /\ ret.is_valid /\ ret.issues = <<>>)

\* The checkpoint that has lost all eight fields is refused by both.
C12_EmptyNotRepaired ==
    /\ ret.op = "verify_checkpoint_integrity"
    /\ arg.missing = {required_fields[i] : i \in 1..8}
    /\ ~ret.ok
    /\ ~ret.is_valid

(***************************************************************************)
(* Part 6.  The checkpoint file as JSON text: save_checkpoint, load_checkpoint *)
(***************************************************************************)

\* A json.dump that writes only the last digit of a number.
DigitsOf_lastdigit(n) == <<n % 10>>

\* A number that json.dump writes: its decimal digits, most significant first.
RECURSIVE DigitsOf(_)
DigitsOf(n) == IF n < 10 THEN <<n>> ELSE Append(DigitsOf(n \div 10), n % 10)

\* A number that json.load reads from its digits.
RECURSIVE NumberOf(_)
NumberOf(ds) ==
    IF Len(ds) = 0 THEN 0
    ELSE NumberOf(SubSeq(ds, 1, Len(ds) - 1)) * 10 + ds[Len(ds)]

JsonNumber(path, n) == [path |-> path, kind |-> "number", text |-> DigitsOf(n)]

JsonString(path, str) == [path |-> path, kind |-> "string", text |-> <<str>>]

\* The concatenation of a sequence of sequences.
RECURSIVE Flatten(_)
Flatten(sqs) == IF Len(sqs) = 0 THEN <<>> ELSE Head(sqs) \o Flatten(Tail(sqs))

\* The keys of sq that the dict d holds, in the order json.dump writes them.
JsonMembers(d, sq) == SelectSeq(sq, LAMBDA k : k \in DOMAIN d)

\* json.dump of a dict of numbers found at path.
JsonNumbers(path, d, sq) ==
    LET held == JsonMembers(d, sq)
    IN  [i \in 1..Len(held) |-> JsonNumber(path \o <<held[i]>>, d[held[i]])]

\* json.dump of a dict of strings found at path.
JsonStrings(path, d, sq) ==
    LET held == JsonMembers(d, sq)
    IN  [i \in 1..Len(held) |-> JsonString(path \o <<held[i]>>, d[held[i]])]

\* json.dump of the progress data _update_batch_checkpoint stores under a phase.
JsonBatchCheckpoint(path, ck) ==
    JsonNumbers(path, ck, <<"batch_index", "batch_size", "progress">>)
    \o (IF "checkpoint" \in DOMAIN ck
        THEN JsonNumbers(path \o <<"checkpoint">>, ck["checkpoint"],
                         <<"batch_index", "batch_size", "progress">>)
        ELSE <<>>)

\* json.dump of one phase entry.
JsonPhase(path, ph) ==
    JsonStrings(path, ph, <<"status">>)
    \o JsonNumbers(path, ph, <<"progress_percentage", "results_count">>)
    \o (IF "checkpoint" \in DOMAIN ph
        THEN JsonBatchCheckpoint(path \o <<"checkpoint">>, ph["checkpoint"]) ELSE <<>>)

\* json.dump(self.checkpoint_data, f): the members of the document, one per leaf.
json_dump(d) ==
    JsonStrings(<<>>, d, <<"scan_id", "domain", "start_time", "last_update", "status">>)
    \o (IF "phases" \in DOMAIN d
        THEN LET held == JsonMembers(d["phases"], PhaseNames)
             IN  Flatten([i \in 1..Len(held) |->
                            JsonPhase(<<"phases", held[i]>>, d["phases"][held[i]])])
        ELSE <<>>)
    \o (IF "statistics" \in DOMAIN d
        THEN JsonNumbers(<<"statistics">>, d["statistics"], required_stats)
        ELSE <<>>)
    \o (IF "environment" \in DOMAIN d
        THEN JsonStrings(<<"environment">>, d["environment"],
                         <<"tool_versions", "templates_hash">>)
        ELSE <<>>)

IsPrefix(pre, path) == Len(pre) <= Len(path) /\ SubSeq(path, 1, Len(pre)) = pre

\* json.load: the value at `path` of the text, a leaf or the dict of what is below it.
RECURSIVE JsonValue(_, _)
JsonValue(text, path) ==
    LET below == SelectSeq(text, LAMBDA m : IsPrefix(path, m.path))
        leaf == SelectSeq(below, LAMBDA m : m.path = path)
    IN  IF Len(leaf) > 0
        THEN LET m == leaf[Len(leaf)]
             IN  IF m.kind = "number" THEN NumberOf(m.text) ELSE m.text[1]
        ELSE [k \in {below[i].path[Len(path) + 1] : i \in 1..Len(below)} |->
                JsonValue(below, path \o <<k>>)]

json_load(text) == JsonValue(text, <<>>)

\* Numbers a checkpoint may hold: progress percentages and counts.
SampleNumbers == {0, 7, 10, 100, 105}

PhaseStatuses == {"pending", "in_progress", "completed", "failed"}

\* A manager holds a checkpoint of a scan; the file does not exist yet.
RoundTripInit ==
    /\ LockInit
    /\ ScanInit
    /\ ret = NoRet
    /\ \E base \in SampleCheckpoints, ph \in Phases, st \in PhaseStatuses,
          progress \in SampleNumbers, cnt \in SampleNumbers,
          key \in {required_stats[i] : i \in 1..3}, value \in SampleNumbers :
        arg = [op |-> "save_checkpoint",
               doc |-> update_statistics(
                           update_phase_status(base, ph, st, progress, cnt), key, value)]

\* save_checkpoint(): _write_checkpoint dumps checkpoint_data into the file.
CallSave ==
    /\ arg.op = "save_checkpoint"
    /\ ret.op = "none"
    /\ IF NotInitialized(arg.doc)
       THEN /\ ret' = [op |-> "save_checkpoint", ok |-> FALSE]
            /\ UNCHANGED ckptFile
       ELSE /\ ret' = [op |-> "save_checkpoint", ok |-> TRUE]
            /\ ckptFile' = [state |-> "doc", doc |-> json_dump(arg.doc)]
    /\ UNCHANGED <<arg, lockVars, procVars, localVars, files, subdomains_txt, alive_txt,
                   results_txt, scan_state_json, cache, histVars>>

\* load_checkpoint() of a fresh CheckpointManager on the file.
CallLoad ==
    /\ ret.op = "save_checkpoint"
    /\ IF ckptFile.state = "doc"
       THEN ret' = [op |-> "load_checkpoint",
                    ok |-> "scan_id" \in DOMAIN json_load(ckptFile.doc),
                    data |-> json_load(ckptFile.doc)]
       ELSE ret' = [op |-> "load_checkpoint", ok |-> FALSE, data |-> <<>>]
    /\ UNCHANGED <<arg, lockVars, scanVars>>

RoundTripNext == CallSave \/ CallLoad

RoundTripSpec == RoundTripInit /\ [][RoundTripNext]_vars

\* C13: a checkpoint written by save_checkpoint and read back by load_checkpoint
\* into a fresh manager has the same phase statuses, progress percentages and
\* statistics.
C13_RoundTrip ==
    ret.op = "load_checkpoint"
    => /\ ret.ok
       /\ \A ph \in Phases :
            /\ ret.data["phases"][ph]["status"] = arg.doc.phases[ph].status
            /\ ret.data["phases"][ph]["progress_percentage"]
                   = arg.doc.phases[ph].progress_percentage
       /\ \A i \in 1..3 :
            ret.data["statistics"][required_stats[i]] = arg.doc.statistics[required_stats[i]]

\* A checkpoint with a three-digit statistic and progress 100 has been read back.
C13_Witness ==
    /\ ret.op = "load_checkpoint"
    /\ ret.ok
    /\ arg.doc.statistics.subdomains_found = 105
    /\ arg.doc.phases["alive_check"].progress_percentage = 100
    /\ ret.data["statistics"]["subdomains_found"] = 105

\* ---------------------------------------------------------------------------
\* Part 7.  The resume command, from the checkpoint file to the start of the
\* scanner (commands/resume.py).
\* ---------------------------------------------------------------------------

\* The keys get_scan_summary reads with checkpoint_data[...].
SummaryFields ==
    {"scan_id", "domain", "start_time", "last_update", "status", "phases", "statistics"}

\* get_scan_summary() returns a summary; otherwise a key is missing and the
\* subscript raises KeyError.
get_scan_summary(d) == SummaryFields \subseteq DOMAIN d

\* validate_environment() can read checkpoint_data["environment"]["tool_versions"].
validate_environment(d) ==
    /\ "environment" \in DOMAIN d
    /\ "tool_versions" \in DOMAIN d["environment"]

\* What the command has reached: the document of its CheckpointManager, whether
\* repair_checkpoint() has run on it, and the exit code once the command ended
\* before the scanner started; on disk, the checkpoint file (as the command
\* found it, until a step writes it) and the backup copy; and the
\* click.confirm prompt the operator declined.
ResumeStep(step, d, repaired, code) ==
    [op |-> step, doc |-> d, repaired |-> repaired, exit_code |-> code,
     file |-> arg.doc, backup |-> FileAbsent, declined |-> "none"]

\* The command is started on a checkpoint file from which some of the required
\* fields have been deleted, with or without --no-confirm and
\* --skip-verification.
ResumeCheckInit ==
    /\ LockInit
    /\ ScanInit
    /\ ret = NoRet
    /\ \E d \in RepairSamples : \E S \in SUBSET {required_fields[i] : i \in 1..8} :
       \E nc \in BOOLEAN : \E sv \in BOOLEAN :
        arg = [op |-> "resume", doc |-> Without(d, S), missing |-> S,
               no_confirm |-> nc, skip_verification |-> sv]

\* resume: checkpoint_manager.load_checkpoint(checkpoint_file), or
\* ValueError("Failed to load checkpoint file") and sys.exit(1).
ResumeLoad ==
    /\ arg.op = "resume"
    /\ ret.op = "none"
    /\ ret' = IF load_checkpoint(FileDoc(arg.doc))
              THEN ResumeStep("load_checkpoint", arg.doc, FALSE, 0)
              ELSE ResumeStep("exit", arg.doc, FALSE, 1)
    /\ UNCHANGED <<arg, lockVars, scanVars>>

\* resume: verify_checkpoint_integrity(); the repair is offered only when
\* neither --skip-verification nor --no-confirm is given.  The operator's
\* answers to click.confirm are free.
ResumeVerify ==
    /\ ret.op = "load_checkpoint"
    /\ LET d == ret.doc
           r == repair_checkpoint(d)
       IN  IF verify_checkpoint_integrity(d).is_valid
              \/ arg.skip_verification \/ arg.no_confirm
           THEN ret' = ResumeStep("verified", d, FALSE, 0)
           ELSE \E attempt \in BOOLEAN : \E continue \in BOOLEAN :
                  ret' = IF ~attempt
                         THEN [ResumeStep("exit", d, FALSE, 0) EXCEPT !.declined = "repair"]
                         ELSE IF r.ok
                         THEN \* repair_checkpoint() has written the file
                              [ResumeStep("verified", r.doc, TRUE, 0) EXCEPT !.file = r.doc]
                         ELSE IF continue
                         THEN ResumeStep("verified", r.doc, TRUE, 0)
                         ELSE [ResumeStep("exit", r.doc, TRUE, 0)
                                  EXCEPT !.declined = "continue_corrupted"]
    /\ UNCHANGED <<arg, lockVars, scanVars>>

\* resume: create_backup_checkpoint(), get_scan_summary() and the tables printed
\* from it; a KeyError ends in the except branch with sys.exit(1).
ResumeSummary ==
    /\ ret.op = "verified"
    /\ LET copied == IF NotInitialized(ret.doc) THEN ret.backup ELSE FileDoc(ret.file)
       IN  ret' = IF get_scan_summary(ret.doc)
                  THEN [ret EXCEPT !.op = "get_scan_summary", !.backup = copied]
                  ELSE [ret EXCEPT !.op = "exit", !.exit_code = 1, !.backup = copied]
    /\ UNCHANGED <<arg, lockVars, scanVars>>

\* resume: validate_environment() unless --skip-verification, where the tool
\* versions found may differ from the recorded ones; then optimize_checkpoint(),
\* which writes the file; then "Do you want to resume this scan?", and the
\* scanner is built from the checkpoint file and run.  Without --no-confirm
\* the operator may decline at the environment mismatch or at the last
\* question, and the command returns.
ResumeStartScan ==
    /\ ret.op = "get_scan_summary"
    /\ IF ~arg.skip_verification /\ ~validate_environment(ret.doc)
       THEN ret' = [ret EXCEPT !.op = "exit", !.exit_code = 1]
       ELSE \E mismatch \in BOOLEAN : \E continue \in BOOLEAN : \E yes \in BOOLEAN :
              ret' = IF ~arg.skip_verification /\ mismatch /\ ~arg.no_confirm /\ ~continue
                     THEN [ret EXCEPT !.op = "exit", !.declined = "environment"]
                     ELSE IF ~arg.no_confirm /\ ~yes
                     THEN [ret EXCEPT !.op = "exit", !.declined = "resume",
                                      !.doc = optimize_checkpoint(ret.doc),
                                      !.file = optimize_checkpoint(ret.doc)]
                     ELSE [ret EXCEPT !.op = "scan",
                                      !.doc = optimize_checkpoint(ret.doc),
                                      !.file = optimize_checkpoint(ret.doc)]
    /\ UNCHANGED <<arg, lockVars, scanVars>>

ResumeCheckNext == ResumeLoad \/ ResumeVerify \/ ResumeSummary \/ ResumeStartScan

ResumeCheckSpec == ResumeCheckInit /\ [][ResumeCheckNext]_vars

\* C14: resuming with --no-confirm from a checkpoint file whose statistics
\* field has been removed repairs the checkpoint and goes on to run the scan.
C14_NoConfirmRepairsAndResumes ==
    (arg.op = "resume" /\ arg.missing = {"statistics"} /\ arg.no_confirm
     /\ ret.op \in {"scan", "exit"})
    => (ret.op = "scan" /\ ret.repaired)

\* With --no-confirm the checkpoint without statistics is not repaired and the
\* command ends with exit code 1.
C14_NoConfirmExitsWithError ==
    /\ arg.op = "resume" /\ arg.missing = {"statistics"} /\ arg.no_confirm
    /\ ret.op = "exit" /\ ret.exit_code = 1 /\ ~ret.repaired

\* ---------------------------------------------------------------------------
\* Part 8.  What a completed scan leaves (Spec).
\* ---------------------------------------------------------------------------

\* scan() is about to return: every phase has run and the last checkpoint is
\* written.
ScanReturns == pc = "exit_ok" /\ ~wr

\* The batch results of _run_nuclei_in_batches report no finding and no error.
NoFindings ==
    \A i \in 1..Len(results) : results[i].vulnerabilities = 0 /\ ~results[i].error

\* C15: a new scan whose enumeration yields two hosts, of which probing reports
\* only the first alive, and whose vulnerability scan of that target finds
\* nothing, ends with checkpoint status completed, vulnerabilities_found = 0 and
\* an existing, empty results.txt.
C15_EndToEndNoFindings ==
    (/\ ScanReturns /\ runs = 1 /\ ~resuming
     /\ subdomains = 2 /\ alive_domains_text = <<1>>
     /\ calls.nuclei = 1 /\ NoFindings)
    => /\ ckptFile.state = "doc"
       /\ ckptFile.doc.status = "completed"
       /\ ckptFile.doc.statistics.vulnerabilities_found = 0
       /\ "results.txt" \in files
       /\ results_txt = <<>>

\* The scan of C15 has ended completed with an empty results.txt, and its
\* checkpoint counts one vulnerability: the number of batches.
C15_OneVulnerabilityCounted ==
    /\ ScanReturns /\ runs = 1 /\ ~resuming
    /\ subdomains = 2 /\ alive_domains_text = <<1>>
    /\ calls.nuclei = 1 /\ NoFindings
    /\ ckptFile.doc.status = "completed"
    /\ "results.txt" \in files /\ results_txt = <<>>
    /\ ckptFile.doc.statistics.vulnerabilities_found = 1

\* C16: when the scan has completed, every finding line that a
\* vulnerability-scan batch wrote to its output file is in results.txt.  The
\* k-th line of batch i is <<i, k>>.
C16_FindingsInResultsFile ==
    (ScanReturns /\ "results.txt" \in files)
    => \A i \in 1..Len(results) : \A k \in 1..results[i].vulnerabilities :
         \E j \in 1..Len(results_txt) : results_txt[j] = <<i, k>>

\* A completed scan whose batch wrote a finding line, with results.txt empty.
C16_FindingMissingFromResults ==
    /\ ScanReturns /\ "results.txt" \in files
    /\ \E i \in 1..Len(results) : results[i].vulnerabilities = 1
    /\ results_txt = <<>>
    /\ ckptFile.doc.phases["vulnerability_scan"].status = "completed"

\* ---------------------------------------------------------------------------
\* Part 9.  _adaptive_batch_size as a function of the number of items, the
\* worker count and the memory usage.
\* ---------------------------------------------------------------------------

\* total_items: around the clamp at 10, the switch at 10000 and the cap of 500.
ItemCounts == {0, 1, 2, 9, 10, 11, 19, 20, 40, 100, 1000, 10000, 10001, 20000}

\* self.max_workers = os.cpu_count() or 4
WorkerCounts == {1, 2, 4, 8, 16}

\* _get_memory_usage() in MB: around 70% of the threshold and the threshold.
MemoryUsages == {0, 1, 100, 716, 717, 1024, 1025, 2048, 5000}

\* _adaptive_batch_size is called twice on the same scanner with the same
\* total_items, at a memory usage that has not gone down in between.
BatchSizeInit ==
    /\ LockInit
    /\ ScanInit
    /\ ret = [op |-> "none", sizes |-> <<>>]
    /\ \E n \in ItemCounts : \E w \in WorkerCounts :
       \E u1 \in MemoryUsages : \E u2 \in MemoryUsages :
        /\ u1 <= u2
        /\ arg = [op |-> "_adaptive_batch_size", total_items |-> n, max_workers |-> w,
                  memory |-> <<u1, u2>>]

CallAdaptiveBatchSize ==
    /\ arg.op = "_adaptive_batch_size"
    /\ Len(ret.sizes) < Len(arg.memory)
    /\ ret' = [op |-> "_adaptive_batch_size",
               sizes |-> Append(ret.sizes,
                                AdaptiveBatchSize(arg.total_items, arg.max_workers,
                                                  arg.memory[Len(ret.sizes) + 1]))]
    /\ UNCHANGED <<arg, lockVars, scanVars>>

BatchSizeNext == CallAdaptiveBatchSize

BatchSizeSpec == BatchSizeInit /\ [][BatchSizeNext]_vars

C18_NonIncreasingInMemory ==
    (Len(ret.sizes) = 2 /\ arg.memory[1] <= arg.memory[2])
    => ret.sizes[2] <= ret.sizes[1]

\* The second call, at a higher usage, has returned a strictly smaller size.
C18_Witness ==
    /\ Len(ret.sizes) = 2
    /\ arg.memory[1] < arg.memory[2]
    /\ ret.sizes[2] < ret.sizes[1]

\* ---------------------------------------------------------------------------
\* Part 10.  The subfinder cache and the tool subprocesses (Spec).
\* ---------------------------------------------------------------------------

\* C19: when the cache holds an entry younger than 24 hours for the subfinder
\* command line, _run_subfinder does not invoke the subprocess and takes the
\* cached stdout as the enumeration output, whatever that stdout is.
C19_FreshCacheSkipsSubprocess ==
    calls.cache_entry = "fresh"
    => /\ calls.subfinder = 0
       /\ pc = "subfinder_stats" => subdomains = calls.cached_stdout

\* A fresh entry holding an empty stdout was found and subfinder has been run.
C19_EmptyCacheRunsSubfinder ==
    /\ calls.cache_entry = "fresh" /\ calls.cached_stdout = 0
    /\ calls.subfinder = 1

\* The scan is inside _run_command_async, waiting for a tool that never exits.
ToolHung == pc \in {"subfinder_hung", "httpx_hung", "nuclei_hung"}

\* A step that the scanning process takes by itself: every action but the
\* operator's commands and the signals sent to the process.
ScannerStep ==
    \/ ResumeInit \/ SetupTools \/ WriteCheckpoint \/ ScanBegin
    \/ LoadSubdomains \/ RunSubfinderStart \/ RunSubfinderTool \/ SubfinderStats
    \/ SubfinderDone \/ LoadAlive \/ RunHttpxStart \/ RunHttpxTool
    \/ UpdateBatchCheckpoint \/ RunHttpxBatch \/ UpdateHttpxProgress \/ SaveAliveFile
    \/ AliveStats \/ AliveDone \/ SkipNuclei \/ RunNucleiStart \/ RunNucleiTool
    \/ NucleiEmptyDone \/ WriteNucleiBatchFile \/ RunNucleiBatch \/ SaveResultsFile \/ NucleiStats
    \/ NucleiDone \/ ScanComplete \/ ScanFinalize \/ ExitOk \/ ScanError \/ ExitError
    \/ ToolHangs

\* C20: a tool invocation is bounded by a timeout: while the scan waits for a
\* subprocess that never returns, the scanner itself has a step to take (the
\* timeout expiring, the subprocess killed, the phase failed); it does not wait
\* forever.
C20_HungToolTimesOut == ToolHung => ENABLED ScannerStep

\* The scan waits in the second httpx batch for a subprocess that never returns;
\* its checkpoint file says alive_check is in progress.
C20_ScanWaitsOnHungTool ==
    /\ pc = "httpx_hung" /\ batch_idx = 1
    /\ ckptFile.doc.phases["alive_check"].status = "in_progress"
    /\ ~ENABLED ScannerStep

\* ---------------------------------------------------------------------------
\* Part 11.  Failures and what they leave in the checkpoint (Spec).
\* ---------------------------------------------------------------------------

\* C21: a notifier call that raises is not fatal: the scan is not marked failed
\* and does not end as an error because of it.
C21_NotifierFailureNotFatal ==
    calls.notify_raised # "none"
    => /\ checkpoint_data.status # "failed"
       /\ ckptFile.state = "doc" => ckptFile.doc.status # "failed"
       /\ lastEnd # "error"

\* The completion notification raised after every phase had completed; the
\* scan has ended as an error and its checkpoint says failed.
C21_CompletedTurnedFailed ==
    /\ calls.notify_raised = "completion"
    /\ lastEnd = "error" /\ exit_code = 1
    /\ ckptFile.state = "doc" /\ ckptFile.doc.status = "failed"
    /\ \A ph \in Phases : ckptFile.doc.phases[ph].status = "completed"

\* scan()'s except branch has saved the failed state and is about to re-raise.
ScanReraises == pc = "exit_error" /\ ~wr

\* C22: when subfinder or an httpx batch exits non-zero, the checkpoint written
\* before the exception is re-raised has the failing phase's status failed and
\* the scan's status failed.
C22_ToolFailureRecorded ==
    (ScanReraises /\ calls.exit_nonzero \in {"subdomain_enumeration", "alive_check"})
    => /\ ckptFile.state = "doc"
       /\ ckptFile.doc.status = "failed"
       /\ ckptFile.doc.phases[calls.exit_nonzero].status = "failed"

\* An httpx batch exited non-zero; the checkpoint written before the re-raise
\* says the scan failed and alive_check is still in progress.
C22_PhaseLeftInProgress ==
    /\ ScanReraises /\ calls.exit_nonzero = "alive_check"
    /\ ckptFile.state = "doc"
    /\ ckptFile.doc.status = "failed"
    /\ ckptFile.doc.phases["alive_check"].status = "in_progress"

\* C23: a vulnerability-scan batch whose subprocess fails is recorded with zero
\* vulnerabilities and an error annotation, and the remaining batches are still
\* executed: every invocation has its batch result, and the batches are over
\* only when each of them has been invoked.
C23_FailedBatchRecordedOthersRun ==
    /\ pc \notin {"idle", "nuclei_hung"}
       => /\ calls.nuclei = Len(results)
          /\ \A i \in 1..Len(results) : results[i].error => results[i].vulnerabilities = 0
    /\ pc \in {"nuclei_stats", "nuclei_done"}
       => Len(results) = total_batches

\* Of two batches the first failed and is annotated, and the second has run
\* and reported a finding.
C23_Witness ==
    /\ pc = "nuclei_stats" /\ total_batches = 2
    /\ results[1] = [vulnerabilities |-> 0, error |-> TRUE]
    /\ results[2] = [vulnerabilities |-> 1, error |-> FALSE]
    /\ calls.nuclei = 2

\* C24: when a vulnerability-scan batch was recorded with an error annotation,
\* the final checkpoint status of the vulnerability_scan phase is failed.
C24_BatchErrorFailsPhase ==
    (ScanReturns /\ \E i \in 1..Len(results) : results[i].error)
    => /\ ckptFile.state = "doc"
       /\ ckptFile.doc.phases["vulnerability_scan"].status = "failed"

\* The only batch of the vulnerability scan failed, and the scan returns with
\* the phase and the scan completed.
C24_BatchErrorPhaseCompleted ==
    /\ ScanReturns /\ Len(results) = 1 /\ results[1].error
    /\ ckptFile.state = "doc"
    /\ ckptFile.doc.phases["vulnerability_scan"].status = "completed"
    /\ ckptFile.doc.status = "completed"

\* The result artifact of a phase, read by scan() (subdomains.txt, alive.txt)
\* and by _run_nuclei (results.txt) when the phase is already completed.
Artifact(ph) ==
    CASE ph = "subdomain_enumeration" -> "subdomains.txt"
      [] ph = "alive_check" -> "alive.txt"
      [] ph = "vulnerability_scan" -> "results.txt"

\* C25: a resumed scan whose checkpoint marks a phase completed while the
\* phase's result artifact is missing on disk does not return normally: it
\* fails with an error, without running the phase's tool again.
C25_MissingArtifactFailsResume ==
    \A ph \in Phases :
        (resuming /\ loaded[ph] = "completed" /\ Artifact(ph) \notin files)
        => ~ScanReturns

\* A resume found vulnerability_scan completed and no results.txt, skipped the
\* phase and returned with the scan completed, nuclei never invoked.
C25_ResumeCompletesWithoutResults ==
    /\ ScanReturns /\ resuming
    /\ loaded["vulnerability_scan"] = "completed"
    /\ "results.txt" \notin files
    /\ calls.nuclei = 0
    /\ ckptFile.state = "doc" /\ ckptFile.doc.status = "completed"

\* C26: within one scan, over its interruptions and resumes, the statistics of
\* the checkpoint are non-negative integers and none of them decreases from
\* one state of the checkpoint to the next.
C26_StatisticsNeverDecrease ==
    [][(pc # "idle" /\ pc' # "idle")
       => \A k \in DOMAIN checkpoint_data.statistics :
            /\ checkpoint_data'.statistics[k] \in Nat
            /\ checkpoint_data'.statistics[k] >= checkpoint_data.statistics[k]]_vars

\* C27: the transient scan status (scan_state["status"]) takes only the values
\* initializing, discovering_subdomains, probing_subdomains,
\* scanning_vulnerabilities and the terminal values completed, error, paused,
\* cancelled.
C27_ScanStatusValues ==
    scan_state.status \in {"initializing", "discovering_subdomains", "probing_subdomains",
                           "scanning_vulnerabilities", "completed", "error", "paused",
                           "cancelled"}

\* While subfinder runs in a new scan the transient status is
\* enumerating_subdomains.
C27_EnumeratingSubdomains ==
    /\ pc = "subfinder_run" /\ ~resuming
    /\ scan_state.status = "enumerating_subdomains"

\* C28: in the alive_check phase, when a batch has been processed and the next
\* has not started, the phase's checkpoint sub-document on disk holds the
\* batch_index and batch_size of the batch just processed in the fields that
\* _get_alive_check_resume_state reads.
C28_BatchRecordedBeforeNext ==
    (pc = "httpx_loop" /\ ~wr /\ batch_idx >= 1)
    => /\ ckptFile.state = "doc"
       /\ "checkpoint" \in DOMAIN get_phase_data(ckptFile.doc, "alive_check")
       /\ LET ck == get_phase_data(ckptFile.doc, "alive_check").checkpoint
          IN  /\ {"batch_index", "batch_size"} \subseteq DOMAIN ck
              /\ ck.batch_index = batch_idx - 1
              /\ ck.batch_size = batch_size

\* After the first of two batches the data of that batch is on disk one level
\* deeper, under checkpoint.checkpoint, and the fields resume reads are absent.
C28_BatchDataNested ==
    /\ pc = "httpx_loop" /\ ~wr /\ batch_idx = 1 /\ total_batches = 2
    /\ ckptFile.state = "doc"
    /\ "checkpoint" \in DOMAIN get_phase_data(ckptFile.doc, "alive_check")
    /\ LET ck == get_phase_data(ckptFile.doc, "alive_check").checkpoint
       IN  /\ "batch_index" \notin DOMAIN ck
           /\ "checkpoint" \in DOMAIN ck
           /\ ck.checkpoint.batch_index = 0
           /\ ck.checkpoint.batch_size = batch_size

\* ---------------------------------------------------------------------------
\* Part 12. update_phase_status called on its own
\* ---------------------------------------------------------------------------

\* Phase names a caller may pass: the three of the scanner and one that no
\* checkpoint of the scanner holds.
PhaseArguments == Phases \cup {"port_scan"}

\* A checkpoint as load_checkpoint() delivers it: written some time ago, with
\* the phases the file happens to hold.
LoadedCheckpoints ==
    {[d EXCEPT !.last_update = "t0", !.phases = Without(@, S)] :
        d \in SampleCheckpoints, S \in SUBSET Phases}

PhaseStatusInit ==
    /\ LockInit
    /\ ScanInit
    /\ ret = NoRet
    /\ \E d \in LoadedCheckpoints, ph \in PhaseArguments,
          st \in {"in_progress", "completed", "failed"},
          progress \in {0, 100}, cnt \in {0, 2} :
        arg = [op |-> "update_phase_status", doc |-> d, phase |-> ph, status |-> st,
               progress |-> progress, results_count |-> cnt]

\* update_phase_status(phase, status, progress, results_count), with the
\* _write_checkpoint() it makes when it finds the phase.
CallUpdatePhaseStatus ==
    /\ arg.op = "update_phase_status"
    /\ ret.op = "none"
    /\ LET d == update_phase_status(arg.doc, arg.phase, arg.status, arg.progress,
                                    arg.results_count)
       IN  /\ ret' = [op |-> "update_phase_status", doc |-> d]
           /\ ckptFile' = IF arg.phase \in DOMAIN arg.doc.phases
                          THEN FileDoc(d) ELSE ckptFile
    /\ UNCHANGED <<arg, lockVars, procVars, localVars, files, subdomains_txt, alive_txt,
                   results_txt, scan_state_json, cache, histVars>>

PhaseStatusNext == CallUpdatePhaseStatus

PhaseStatusSpec == PhaseStatusInit /\ [][PhaseStatusNext]_vars

C30_RepairOnlyAdds ==
    ret.op \in {"repair_checkpoint", "verify_checkpoint_integrity"}
    => /\ \A k \in DOMAIN arg.doc :
            /\ k \in DOMAIN ret.doc
            /\ k # "phases" => ret.doc[k] = arg.doc[k]
            /\ k = "phases" => \A ph \in DOMAIN arg.doc[k] :
                                  /\ ph \in DOMAIN ret.doc[k]
                                  /\ ret.doc[k][ph] = arg.doc[k][ph]
       /\ \A k \in DOMAIN ret.doc : k \in DOMAIN arg.doc \/ k \in arg.missing
       /\ (/\ ret.op = "verify_checkpoint_integrity"
           /\ "domain" \in DOMAIN arg.doc
           /\ arg.doc["domain"] # self_domain)
          => /\ ret.doc["domain"] = arg.doc["domain"]
             /\ ~ret.is_valid
             /\ <<"Domain mismatch", arg.doc["domain"]>> \in Range(ret.issues)

\* A checkpoint of other.org without statistics, with alive_check under way:
\* the repair adds the statistics, keeps the domain and the phase, and the
\* verification reports the domain.
C30_Witness ==
    /\ ret.op = "verify_checkpoint_integrity"
    /\ arg.missing = {"statistics"}
    /\ arg.doc["domain"] = "other.org"
    /\ arg.doc["phases"]["alive_check"].status = "in_progress"
    /\ ret.ok
    /\ ret.doc["domain"] = "other.org"
    /\ ret.doc["phases"]["alive_check"] = arg.doc["phases"]["alive_check"]
    /\ ret.doc["statistics"] = _create_default_statistics
    /\ ret.issues = << <<"Domain mismatch", "other.org">> >>

\* ---------------------------------------------------------------------------
\* Part 14. cleanup_old_checkpoints called on its own
\* ---------------------------------------------------------------------------

\* The largest modification time of a file of the checkpoint directory.
MaxMtime == 3

\* File names are sequences of their parts. The checkpoint directory may hold
\* scan_state.json, scan_state.lock and backups scan_state_<timestamp>.json.
CheckpointFileName == <<"scan_state", ".json">>

LockFileName == <<"scan_state", ".lock">>

BackupFileNames ==
    {<<"scan_state", "_", ts, ".json">> : ts \in {"0101_000000", "0101_000001",
                                                 "0102_000000", "0103_000000"}}

\* A glob that also matches the name without a timestamp.
GlobCheckpoints_loose(name) ==
    name[1] = "scan_state" /\ name[Len(name)] = ".json"

\* checkpoint_dir.glob("scan_state_*.json")
GlobCheckpoints(name) ==
    /\ Len(name) >= 3
    /\ name[1] = "scan_state" /\ name[2] = "_"
    /\ name[Len(name)] = ".json"

\* list.sort(key=st_mtime, reverse=True) of the files of `matched`: every order
\* with the newer file first; files of equal time stay in the order glob gave.
NewestFirst(dir, matched) ==
    {order \in [1..Cardinality(matched) -> matched] :
        /\ \A i, j \in DOMAIN order : i # j => order[i] # order[j]
        /\ \A i, j \in DOMAIN order : i < j => dir[order[i]] >= dir[order[j]]}

\* cleanup_old_checkpoints(max_checkpoints): the directory it leaves, for one
\* order the sort produced.
cleanup_old_checkpoints(dir, max_checkpoints, order) ==
    IF Len(order) <= max_checkpoints THEN dir
    ELSE Without(dir, {order[i] : i \in (max_checkpoints + 1)..Len(order)})

CleanupInit ==
    /\ LockInit
    /\ ScanInit
    /\ ret = NoRet
    /\ \E S \in SUBSET (BackupFileNames \cup {CheckpointFileName, LockFileName}) :
       \E dir \in [S -> 1..MaxMtime] :
       \E k \in 0..(Cardinality(BackupFileNames) + 1) :
            arg = [op |-> "cleanup_old_checkpoints", dir |-> dir, max_checkpoints |-> k]

CallCleanup ==
    /\ arg.op = "cleanup_old_checkpoints"
    /\ ret.op = "none"
    /\ \E order \in NewestFirst(arg.dir, {f \in DOMAIN arg.dir : GlobCheckpoints(f)}) :
        ret' = [op |-> "cleanup_old_checkpoints", ok |-> TRUE,
                dir |-> cleanup_old_checkpoints(arg.dir, arg.max_checkpoints, order)]
    /\ UNCHANGED <<arg, lockVars, scanVars>>

CleanupNext == CallCleanup

CleanupSpec == CleanupInit /\ [][CleanupNext]_vars

\* C31: cleanup_old_checkpoints(k) deletes exactly the backup files that are
\* not among the k most recently modified: it keeps min(k, n) of the n
\* backups, no deleted backup is newer than a kept one, and no other file,
\* scan_state.json in particular, is deleted or changed.
C31_KeepsNewestBackups ==
    ret.op = "cleanup_old_checkpoints"
    => LET backups == BackupFileNames \cap DOMAIN arg.dir
           kept == BackupFileNames \cap DOMAIN ret.dir
           deleted == DOMAIN arg.dir \ DOMAIN ret.dir
       IN  /\ DOMAIN ret.dir \subseteq DOMAIN arg.dir
           /\ deleted \subseteq backups
           /\ Cardinality(kept) = Min(arg.max_checkpoints, Cardinality(backups))
           /\ \A d \in deleted, f \in kept : arg.dir[f] >= arg.dir[d]
           /\ \A f \in DOMAIN ret.dir : ret.dir[f] = arg.dir[f]
           /\ ret.ok

\* Of three backups the oldest is deleted with k = 2, and scan_state.json,
\* older than every backup, stays.
C31_Witness ==
    /\ ret.op = "cleanup_old_checkpoints"
    /\ arg.max_checkpoints = 2
    /\ Cardinality(BackupFileNames \cap DOMAIN arg.dir) = 3
    /\ CheckpointFileName \in DOMAIN arg.dir /\ arg.dir[CheckpointFileName] = 1
    /\ \A f \in BackupFileNames \cap DOMAIN arg.dir : arg.dir[f] >= 2
    /\ Cardinality(BackupFileNames \cap DOMAIN ret.dir) = 2
    /\ CheckpointFileName \in DOMAIN ret.dir
    /\ \E d \in DOMAIN arg.dir \ DOMAIN ret.dir : arg.dir[d] = 2

\* ---------------------------------------------------------------------------
\* Part 15. What the resume command leaves on disk
\* ---------------------------------------------------------------------------

\* C32: the backup copy the resume command makes holds the checkpoint exactly
\* as it was on disk when the command started.
C32_BackupIsOriginal ==
    (arg.op = "resume" /\ ret.op # "none" /\ ret.backup.state = "doc")
    => ret.backup.doc = arg.doc

\* The checkpoint file lacked its statistics; the operator accepted the repair,
\* and the backup made afterwards holds the repaired document.
C32_BackupOfRepaired ==
    /\ arg.op = "resume" /\ arg.missing = {"statistics"}
    /\ ret.op = "scan" /\ ret.repaired
    /\ ret.backup.state = "doc"
    /\ "statistics" \in DOMAIN ret.backup.doc
    /\ ret.backup.doc # arg.doc

\* C40: when the operator declines a confirmation prompt of the resume
\* command, the command ends with the checkpoint file as it found it.
C40_DeclineLeavesFile ==
    (arg.op = "resume" /\ ret.op = "exit" /\ ret.declined # "none")
    => ret.file = arg.doc

\* The operator declined "Do you want to resume this scan?" on a sound
\* checkpoint: optimize_checkpoint() had already rewritten the file without
\* the batch data of the completed alive_check phase.
C40_DeclinedAfterOptimize ==
    /\ arg.op = "resume" /\ arg.missing = {}
    /\ ret.op = "exit" /\ ret.declined = "resume" /\ ~ret.repaired
    /\ "checkpoint" \in DOMAIN arg.doc["phases"]["alive_check"]
    /\ "checkpoint" \notin DOMAIN ret.file["phases"]["alive_check"]

\* ---------------------------------------------------------------------------
\* Part 16. FileLock.acquire against a lock that is kept
\* ---------------------------------------------------------------------------

\* C33: FileLock.acquire terminates: a process inside acquire() leaves it,
\* with True or, once the timeout has elapsed, with False, however long the
\* other process keeps the lock.
C33_AcquireTerminates ==
    \A p \in Procs : (lpc[p] = "acquire") ~> (lpc[p] # "acquire")

\* The scan holds the lock and has not released it; the acquire() of the
\* resume process has slept through its timeout and returned False.
C33_TimedOut ==
    /\ acquired["scan"] /\ lpc["scan"] \in {"modify", "write"}
    /\ ~acquired["resume"] /\ lpc["resume"] \in {"modify", "write"}
    /\ waited["resume"] = MaxPolls + 1

\* acquire() returned False and left the handle it had opened in lock_handle.
FailedAcquire(p) == ~acquired[p] /\ lock_handle[p] # 0 /\ lpc[p] # "acquire"

\* C38: the release() that follows a failed acquire() on the same FileLock
\* ends without touching the lock: it does not go on to remove the lock file.
C38_ReleaseAfterFailedAcquire ==
    [][\A p \in Procs :
        (lpc[p] = "release" /\ FailedAcquire(p) /\ lpc'[p] # "release")
        => (lpc'[p] = "idle" /\ lock_file' = lock_file)]_lockVars

\* The scan is inside its first `with FileLock` block and holds the lock; the
\* resume process timed out in acquire(), ran its block and released: the
\* lock file is gone, and the next acquire() would lock a new file.
C38_HolderLostLockFile ==
    /\ acquired["scan"] /\ lastExit["scan"] = "none" /\ lpc["scan"] \in {"modify", "write"}
    /\ lpc["resume"] = "idle" /\ waited["resume"] = MaxPolls + 1
    /\ lastExit["resume"] # "none"
    /\ lock_file = 0
    /\ flock[lock_handle["scan"]] = "scan"

\* ---------------------------------------------------------------------------
\* Part 17. load_checkpoint that returns False
\* ---------------------------------------------------------------------------

\* C34: when load_checkpoint returns False, the manager's checkpoint_data is
\* what it was before the call; for the manager the resume command has just
\* built, that is None.
C34_FailedLoadKeepsData ==
    (arg.op = "resume" /\ ret.op = "exit" /\ ~load_checkpoint(FileDoc(arg.doc)))
    => NotInitialized(ret.doc)

\* The file holds a JSON document without scan_id: load_checkpoint returned
\* False, the command ended with exit code 1, and checkpoint_data is the
\* document of the file.
C34_RejectedDocumentKept ==
    /\ arg.op = "resume" /\ arg.missing = {"scan_id"}
    /\ ret.op = "exit" /\ ret.exit_code = 1
    /\ ret.doc = arg.doc
    /\ "domain" \in DOMAIN ret.doc

\* ---------------------------------------------------------------------------
\* Part 18. Scratch files
\* ---------------------------------------------------------------------------

\* C36: scratch files never outlive their use.  In a run that ends by return,
\* by exception or by a handled signal, the input file of _run_httpx exists
\* only inside _run_httpx, and the batch file of the nuclei loop exists only
\* while its batch runs.
C36_ScratchFilesDeleted ==
    LET InRunHttpx ==
            pc \in {"httpx_loop", "httpx_batch", "httpx_progress", "httpx_hung",
                    "alive_stats", "alive_done"}
    IN  ~sigkilled =>
            /\ "httpx_input.tmp" \in files => InRunHttpx
            /\ "nuclei_batch.txt" \in files => pc \in {"nuclei_batch", "nuclei_hung"}

\* The second batch of httpx failed after the input file was written, the
\* exception left _run_httpx, and no scratch file is left.
C36_Witness ==
    /\ ~sigkilled
    /\ pc = "error" /\ calls.exit_nonzero = "alive_check" /\ calls.httpx = 2
    /\ {"httpx_input.tmp", "nuclei_batch.txt"} \cap files = {}

\* ---------------------------------------------------------------------------
\* Part 19. The batches of a fresh alive_check
\* ---------------------------------------------------------------------------

\* C35: a fresh alive_check over N subdomains with batch size b has invoked the
\* batch runner ceil(N/b) times when it saves its result, every subdomain is
\* passed to exactly one batch, the returned text is the sorted concatenation
\* of the batch outputs, and the alive count recorded is its number of lines.
\* ceil(N/b) is the least number of batches of b items that hold N items.
C35_FreshAliveCheckBatches ==
    LET ceil == CHOOSE k \in 0..subdomains :
                    /\ k * batch_size >= subdomains
                    /\ k = 0 \/ (k - 1) * batch_size < subdomains
        BatchesHolding(h) ==
            {i \in 0..(total_batches - 1) :
                 h \in Range(BatchOf(subdomains, i, batch_size))}
    IN  (~resuming /\ pc \in {"alive_stats", "alive_done"}) =>
            /\ calls.httpx = ceil
            /\ \A h \in 1..subdomains : Cardinality(BatchesHolding(h)) = 1
            /\ Len(alive_domains_text) = Len(all_alive)
            /\ Range(alive_domains_text) = Range(all_alive)
            /\ \A i, j \in 1..Len(alive_domains_text) :
                   i < j => alive_domains_text[i] <= alive_domains_text[j]
            /\ alive_txt = alive_domains_text
            /\ pc = "alive_done" =>
                   checkpoint_data.statistics.alive_subdomains = Len(alive_domains_text)

\* A fresh alive_check of several batches, more than one of them with output.
C35_Witness ==
    /\ ~resuming /\ pc = "alive_done"
    /\ calls.httpx >= 2 /\ subdomains > batch_size
    /\ Len(alive_domains_text) > batch_size
    /\ alive_domains_text[1] = 1

\* ---------------------------------------------------------------------------
\* Part 20. Completed phases and their artifacts
\* ---------------------------------------------------------------------------

\* C39: whenever the checkpoint on disk marks a phase completed, the artifact
\* file of that phase (subdomains.txt, alive.txt, results.txt) exists on disk.
C39_CompletedPhaseHasArtifact ==
    \A ph \in Phases :
        (/\ ckptFile.state = "doc"
         /\ ph \in DOMAIN ckptFile.doc.phases
         /\ ckptFile.doc.phases[ph].status = "completed")
        => Artifact(ph) \in files

\* A scan whose alive_check found no host: _run_nuclei marked
\* vulnerability_scan completed and returned before any batch, the marker is on
\* disk, and results.txt was never written.
C39_CompletedWithoutResults ==
    /\ ckptFile.state = "doc"
    /\ ckptFile.doc.phases["vulnerability_scan"].status = "completed"
    /\ ckptFile.doc.phases["alive_check"].status = "completed"
    /\ "alive.txt" \in files /\ alive_txt = <<>>
    /\ "results.txt" \notin files
    /\ calls.nuclei = 0 /\ ~resuming /\ ~sigkilled

\* ---------------------------------------------------------------------------
\* Part 21. Two CheckpointManagers on one checkpoint file
\* ---------------------------------------------------------------------------

\* Mutating calls each manager makes at most.
MaxUpdates == 2

\* The running scan wrote the checkpoint file from its checkpoint_data; the
\* manager of the resume command holds None until load_checkpoint.  arg holds
\* the two managers, ret the file and, for comparison, the document a single
\* manager would hold after the same calls in the same order.
ManagersInit ==
    /\ LockInit
    /\ ScanInit
    /\ \E d \in SampleCheckpoints :
        /\ d.status = "in_progress"
        /\ arg = [op |-> "managers",
                  checkpoint_data |-> [p \in Procs |-> IF p = "scan" THEN d ELSE <<>>],
                  left |-> [p \in Procs |-> MaxUpdates],
                  finished |-> [p \in Procs |-> FALSE]]
        /\ ret = [op |-> "managers", file |-> d, serial |-> d]

\* resume line 89: load_checkpoint, the only place where a manager reads the
\* file (json.load, checkpoint_manager.py 507).
ManagerLoad ==
    /\ arg.op = "managers"
    /\ NotInitialized(arg.checkpoint_data["resume"])
    /\ ~arg.finished["resume"]
    /\ arg' = [arg EXCEPT !.checkpoint_data["resume"] = ret.file]
    /\ UNCHANGED <<ret, lockVars, scanVars>>

\* One mutating call of manager p, run from acquiring the lock to releasing it
\* with no step of the other manager in between: the call changes the
\* manager's own checkpoint_data and _write_checkpoint dumps that whole
\* document over the file.  optimize_checkpoint is called by resume only.
ManagerCall(p) ==
    LET Statuses == {"in_progress", "completed"}
        Written == {"alive_check", "vulnerability_scan"}
        Calls ==
            {[call |-> "update_phase_status", on |-> ph, status |-> st, n |-> 1] :
                 ph \in Written, st \in Statuses}
            \cup {[call |-> "update_statistics", on |-> k, status |-> "", n |-> 1] :
                      k \in {"alive_subdomains", "vulnerabilities_found"}}
            \cup {[call |-> "update_checkpoint", on |-> "alive_check", status |-> "",
                   n |-> 1]}
            \cup {[call |-> "optimize_checkpoint", on |-> "", status |-> "", n |-> 0]}
        Applied(d, c) ==
            CASE c.call = "update_phase_status" ->
                     update_phase_status(d, c.on, c.status,
                                         IF c.status = "completed" THEN 100 ELSE 50, c.n)
              [] c.call = "update_statistics" -> update_statistics(d, c.on, c.n)
              [] c.call = "update_checkpoint" ->
                     update_checkpoint(d, c.on, BatchCheckpointKwargs(c.n, 5, 2))
              [] c.call = "optimize_checkpoint" -> optimize_checkpoint(d)
    IN  /\ arg.op = "managers"
        /\ ~NotInitialized(arg.checkpoint_data[p])
        /\ ~arg.finished[p]
        /\ arg.left[p] > 0
        /\ \E c \in Calls :
            /\ c.call = "optimize_checkpoint" => p = "resume"
            /\ arg' = [arg EXCEPT !.checkpoint_data[p] = Applied(@, c),
                                  !.left[p] = @ - 1]
            /\ ret' = [ret EXCEPT !.file = Applied(arg.checkpoint_data[p], c),
                                  !.serial = Applied(@, c)]
        /\ UNCHANGED <<lockVars, scanVars>>

\* The command of manager p ends.
ManagerExit(p) ==
    /\ arg.op = "managers"
    /\ ~arg.finished[p]
    /\ arg' = [arg EXCEPT !.finished[p] = TRUE]
    /\ UNCHANGED <<ret, lockVars, scanVars>>

ManagersNext ==
    \/ ManagerLoad
    \/ \E p \in Procs : ManagerCall(p)
    \/ \E p \in Procs : ManagerExit(p)

ManagersSpec == ManagersInit /\ [][ManagersNext]_vars

\* C37: when the running scan and a separate resume invocation both modify the
\* checkpoint file, each through its own CheckpointManager, no update is lost:
\* after both have finished, the phases and the statistics of the file are
\* those that all their updates, applied in the order they were written, give.
C37_NoUpdateLost ==
    (arg.finished["scan"] /\ arg.finished["resume"])
    => /\ ret.file.phases = ret.serial.phases
       /\ ret.file.statistics = ret.serial.statistics

\* The scan marked alive_check completed after resume had loaded the file;
\* resume, which never wrote that phase, then saved a statistic: both have
\* finished and the file no longer holds the status the scan wrote.
C37_ScanUpdateOverwritten ==
    /\ arg.finished["scan"] /\ arg.finished["resume"]
    /\ arg.checkpoint_data["scan"].phases["alive_check"].status = "completed"
    /\ ret.serial.phases["alive_check"].status = "completed"
    /\ ret.file.phases["alive_check"].status = "pending"
    /\ ret.file.statistics.vulnerabilities_found = 1
    /\ arg.left["scan"] = MaxUpdates - 1 /\ arg.left["resume"] = MaxUpdates - 1

====
